---- MODULE Spec2Model ----
(***************************************************************************)
(* Input detection of SC-Binding-Utility: the hybrid detector of           *)
(* src-tauri/src/directinput.rs (XInput slots + descriptor-driven HID      *)
(* devices) and the report decoder of src-tauri/src/hid_reader.rs.         *)
(*                                                                         *)
(* Normalised XInput axis values are f32 in the source.  Here a value is   *)
(* the integer numerator over the common denominator                       *)
(* Unit = 32768 * 255, so a stick reading raw/32768 is raw*255 and a       *)
(* trigger reading b/255*2-1 is (2b-255)*32768.  The thresholds 0.5 and    *)
(* 0.3 are kept in tenths; no stick or trigger reading (nor a difference   *)
(* of two) lies within f32 rounding distance of a threshold, so every      *)
(* comparison decides as the f32 comparison does.                          *)
(***************************************************************************)
EXTENDS Integers, Sequences, FiniteSets, TLC

VARIABLES
    env,                      \* the hardware of this run: what is plugged in
    xinput,                   \* InputDetector.xinput is Some(handle)
    xinput_prev_states,       \* [slot -> XInputState or None]
    xinput_axis_states,       \* [slot -> [axis -> AxisState or None]]
    hid_devices,              \* Vec<HidDeviceListItem>, enumeration order
    device_descriptors,       \* path -> descriptor
    device_instances,         \* path -> instance number
    device_hid_to_axis_maps,  \* path -> (usage id -> axis index)
    prev_hid_reports,         \* path -> HidFullReport
    opened_devices,           \* set of paths with an open handle
    hid_queue,                \* path -> raw reports waiting in the OS queue
    detected_inputs,          \* the Vec<DetectedInput> the last poll returned
    polled,                   \* what get_state answered per slot in the last poll
    poll_log,                 \* per raw report read in the last poll: what was done
    hist,                     \* observer of slot 0 / axis 1: samples and events
    session,                  \* the wait_for_input(s) call around the detector
    probe                     \* the last call of a pure function and its answer

vars == <<env, xinput, xinput_prev_states, xinput_axis_states, hid_devices,
          device_descriptors, device_instances, device_hid_to_axis_maps,
          prev_hid_reports, opened_devices, hid_queue, detected_inputs,
          polled, poll_log, hist, session, probe>>

\* Option<T>, and Result<T, _> where only success matters: None is the empty
\* sequence, Some(x) the one-element sequence
None == <<>>
Some(x) == <<x>>
Unwrap(o) == o[1]

(* ------------------------------------------------------------------ *)
(* Program constants                                                   *)
(* ------------------------------------------------------------------ *)
\* thresholds, in tenths
AXIS_TRIGGER_THRESHOLD == 5
AXIS_RESET_THRESHOLD == 3
MOVEMENT_THRESHOLD == 3
\* (sThumb as f32) / 32768.0 and (bTrigger as f32) / 255.0
StickDivisor == 32768
TriggerDivisor == 255
\* for controller_id in 0..4
XSlotCount == 4
\* if reports_processed >= 10
ReadCap == 10
\* const AXIS_CHANGE_THRESHOLD: f32 = 50.0
AXIS_CHANGE_THRESHOLD == 50
\* value.max(0).min(u16::MAX as i32)
U16Max == 65535
\* if axis_id == 0x39
HatUsage == 57
\* if usage_page == 0x09
ButtonPage == 9

Unit == StickDivisor * TriggerDivisor
Slots == 0 .. (XSlotCount - 1)
Axes == 1 .. 6

Abs(x) == IF x < 0 THEN -x ELSE x

(* ------------------------------------------------------------------ *)
(* XInput backend                                                      *)
(* ------------------------------------------------------------------ *)
Pad(b, lx, lt) ==
    [wButtons |-> b, sThumbLX |-> lx, sThumbLY |-> 0, sThumbRX |-> 0,
     sThumbRY |-> 0, bLeftTrigger |-> lt, bRightTrigger |-> 0]

\* the six normalised axis values of a state, numerators over Unit
XAxisValues(state) ==
    << state.sThumbLX * TriggerDivisor,
       state.sThumbLY * TriggerDivisor,
       state.sThumbRX * TriggerDivisor,
       state.sThumbRY * TriggerDivisor,
       (2 * state.bLeftTrigger - TriggerDivisor) * StickDivisor,
       (2 * state.bRightTrigger - TriggerDivisor) * StickDivisor >>

AxisState(value, direction) ==
    [last_value |-> value, last_triggered_direction |-> direction]

RECURSIVE AndNot(_, _)
\* a & !b on unsigned integers
AndNot(a, b) ==
    IF a = 0 THEN 0
    ELSE (IF a % 2 = 1 /\ b % 2 = 0 THEN 1 ELSE 0) + 2 * AndNot(a \div 2, b \div 2)

RECURSIVE LowestBit(_)
LowestBit(mask) == IF mask = 0 THEN 0 ELSE IF mask % 2 = 1 THEN 1 ELSE 2 * LowestBit(mask \div 2)

\* a match on the lowest newly set bit instead of the whole mask
ButtonNumLowestBit(buttons_pressed) ==
    LET bit == LowestBit(buttons_pressed)
    IN  CASE bit = 4096  -> 1
          [] bit = 8192  -> 2
          [] bit = 16384 -> 3
          [] bit = 32768 -> 4
          [] bit = 256   -> 5
          [] bit = 512   -> 6
          [] bit = 16    -> 7
          [] bit = 32    -> 8
          [] bit = 64    -> 9
          [] bit = 128   -> 10
          [] bit = 1     -> 11
          [] bit = 2     -> 12
          [] bit = 4     -> 13
          [] bit = 8     -> 14
          [] OTHER -> 0

\* match buttons_pressed { 0x1000 => Some(1), ... _ => None }, None as 0
ButtonNum(buttons_pressed) ==
    CASE buttons_pressed = 4096  -> 1
      [] buttons_pressed = 8192  -> 2
      [] buttons_pressed = 16384 -> 3
      [] buttons_pressed = 32768 -> 4
      [] buttons_pressed = 256   -> 5
      [] buttons_pressed = 512   -> 6
      [] buttons_pressed = 16    -> 7
      [] buttons_pressed = 32    -> 8
      [] buttons_pressed = 64    -> 9
      [] buttons_pressed = 128   -> 10
      [] buttons_pressed = 1     -> 11
      [] buttons_pressed = 2     -> 12
      [] buttons_pressed = 4     -> 13
      [] buttons_pressed = 8     -> 14
      [] OTHER -> 0

XUuid(controller_id) == <<"xinput", controller_id>>

XButtonEvent(controller_id, btn) ==
    [input_string |-> <<"gp", controller_id + 1, "button", btn>>,
     device_type |-> "Gamepad",
     device_uuid |-> XUuid(controller_id)]

XAxisEvent(controller_id, axis_index, direction) ==
    [input_string |-> <<"gp", controller_id + 1, "axis", axis_index, direction>>,
     device_type |-> "Gamepad",
     device_uuid |-> XUuid(controller_id)]

\* XAxisStep that remembers the direction of every sample beyond the trigger
\* threshold, fired or not
XAxisStepMarkUnfired(entry0, value) ==
    LET state_entry == IF entry0 = None THEN AxisState(value, None) ELSE Unwrap(entry0)
        movement_delta == Abs(value - state_entry.last_value)
        is_positive == 10 * value > AXIS_TRIGGER_THRESHOLD * Unit
        is_negative == 10 * value < -(AXIS_TRIGGER_THRESHOLD * Unit)
        is_centered == 10 * Abs(value) < AXIS_RESET_THRESHOLD * Unit
        has_moved_enough == 10 * movement_delta > MOVEMENT_THRESHOLD * Unit
        e1 == IF is_centered THEN AxisState(value, None) ELSE state_entry
        should_trigger ==
            \/ is_positive /\ has_moved_enough
                  /\ e1.last_triggered_direction # Some(TRUE)
            \/ is_negative /\ has_moved_enough
                  /\ e1.last_triggered_direction # Some(FALSE)
    IN  IF should_trigger
        THEN [state |-> AxisState(value, Some(is_positive)),
              fired |-> Some(IF is_positive THEN "positive" ELSE "negative")]
        ELSE IF is_positive \/ is_negative
        THEN [state |-> AxisState(e1.last_value, Some(is_positive)), fired |-> None]
        ELSE [state |-> e1, fired |-> None]

\* XAxisStep with the opposite direction blocked too until the axis re-centres
XAxisStepBlockOpposite(entry0, value) ==
    LET state_entry == IF entry0 = None THEN AxisState(value, None) ELSE Unwrap(entry0)
        movement_delta == Abs(value - state_entry.last_value)
        is_positive == 10 * value > AXIS_TRIGGER_THRESHOLD * Unit
        is_negative == 10 * value < -(AXIS_TRIGGER_THRESHOLD * Unit)
        is_centered == 10 * Abs(value) < AXIS_RESET_THRESHOLD * Unit
        has_moved_enough == 10 * movement_delta > MOVEMENT_THRESHOLD * Unit
        e1 == IF is_centered THEN AxisState(value, None) ELSE state_entry
        should_trigger ==
            (is_positive \/ is_negative) /\ has_moved_enough
                /\ e1.last_triggered_direction = None
    IN  IF should_trigger
        THEN [state |-> AxisState(value, Some(is_positive)),
              fired |-> Some(IF is_positive THEN "positive" ELSE "negative")]
        ELSE [state |-> e1, fired |-> None]

\* XAxisStep with the centre reset storing the value but not clearing the direction
XAxisStepNoReset(entry0, value) ==
    LET state_entry == IF entry0 = None THEN AxisState(value, None) ELSE Unwrap(entry0)
        movement_delta == Abs(value - state_entry.last_value)
        is_positive == 10 * value > AXIS_TRIGGER_THRESHOLD * Unit
        is_negative == 10 * value < -(AXIS_TRIGGER_THRESHOLD * Unit)
        is_centered == 10 * Abs(value) < AXIS_RESET_THRESHOLD * Unit
        has_moved_enough == 10 * movement_delta > MOVEMENT_THRESHOLD * Unit
        e1 == IF is_centered
              THEN AxisState(value, state_entry.last_triggered_direction)
              ELSE state_entry
        should_trigger ==
            \/ is_positive /\ has_moved_enough
                  /\ e1.last_triggered_direction # Some(TRUE)
            \/ is_negative /\ has_moved_enough
                  /\ e1.last_triggered_direction # Some(FALSE)
    IN  IF should_trigger
        THEN [state |-> AxisState(value, Some(is_positive)),
              fired |-> Some(IF is_positive THEN "positive" ELSE "negative")]
        ELSE [state |-> e1, fired |-> None]

\* XAxisStep without the movement floor: every crossing of a trigger
\* threshold fires
XAxisStepNoFloor(entry0, value) ==
    LET state_entry == IF entry0 = None THEN AxisState(value, None) ELSE Unwrap(entry0)
        is_positive == 10 * value > AXIS_TRIGGER_THRESHOLD * Unit
        is_negative == 10 * value < -(AXIS_TRIGGER_THRESHOLD * Unit)
        is_centered == 10 * Abs(value) < AXIS_RESET_THRESHOLD * Unit
        e1 == IF is_centered THEN AxisState(value, None) ELSE state_entry
        should_trigger ==
            \/ is_positive /\ e1.last_triggered_direction # Some(TRUE)
            \/ is_negative /\ e1.last_triggered_direction # Some(FALSE)
    IN  IF should_trigger
        THEN [state |-> AxisState(value, Some(is_positive)),
              fired |-> Some(IF is_positive THEN "positive" ELSE "negative")]
        ELSE [state |-> e1, fired |-> None]

\* XAxisStep that fires without recording the value it fired at
XAxisStepStaleValue(entry0, value) ==
    LET state_entry == IF entry0 = None THEN AxisState(value, None) ELSE Unwrap(entry0)
        movement_delta == Abs(value - state_entry.last_value)
        is_positive == 10 * value > AXIS_TRIGGER_THRESHOLD * Unit
        is_negative == 10 * value < -(AXIS_TRIGGER_THRESHOLD * Unit)
        is_centered == 10 * Abs(value) < AXIS_RESET_THRESHOLD * Unit
        has_moved_enough == 10 * movement_delta > MOVEMENT_THRESHOLD * Unit
        e1 == IF is_centered THEN AxisState(value, None) ELSE state_entry
        should_trigger ==
            \/ is_positive /\ has_moved_enough
                  /\ e1.last_triggered_direction # Some(TRUE)
            \/ is_negative /\ has_moved_enough
                  /\ e1.last_triggered_direction # Some(FALSE)
    IN  IF should_trigger
        THEN [state |-> AxisState(e1.last_value, Some(is_positive)),
              fired |-> Some(IF is_positive THEN "positive" ELSE "negative")]
        ELSE [state |-> e1, fired |-> None]

\* XAxisStep that fires without recording the direction it fired in
XAxisStepUnlatched(entry0, value) ==
    LET state_entry == IF entry0 = None THEN AxisState(value, None) ELSE Unwrap(entry0)
        movement_delta == Abs(value - state_entry.last_value)
        is_positive == 10 * value > AXIS_TRIGGER_THRESHOLD * Unit
        is_negative == 10 * value < -(AXIS_TRIGGER_THRESHOLD * Unit)
        is_centered == 10 * Abs(value) < AXIS_RESET_THRESHOLD * Unit
        has_moved_enough == 10 * movement_delta > MOVEMENT_THRESHOLD * Unit
        e1 == IF is_centered THEN AxisState(value, None) ELSE state_entry
        should_trigger ==
            \/ is_positive /\ has_moved_enough
                  /\ e1.last_triggered_direction # Some(TRUE)
            \/ is_negative /\ has_moved_enough
                  /\ e1.last_triggered_direction # Some(FALSE)
    IN  IF should_trigger
        THEN [state |-> AxisState(value, e1.last_triggered_direction),
              fired |-> Some(IF is_positive THEN "positive" ELSE "negative")]
        ELSE [state |-> e1, fired |-> None]

\* One axis of one slot in one poll: the entry (or_insert), the centre reset,
\* should_trigger.  Answers the new AxisState and the direction fired, if any.
XAxisStep(entry0, value) ==
    LET state_entry == IF entry0 = None THEN AxisState(value, None) ELSE Unwrap(entry0)
        movement_delta == Abs(value - state_entry.last_value)
        is_positive == 10 * value > AXIS_TRIGGER_THRESHOLD * Unit
        is_negative == 10 * value < -(AXIS_TRIGGER_THRESHOLD * Unit)
        is_centered == 10 * Abs(value) < AXIS_RESET_THRESHOLD * Unit
        has_moved_enough == 10 * movement_delta > MOVEMENT_THRESHOLD * Unit
        e1 == IF is_centered THEN AxisState(value, None) ELSE state_entry
        should_trigger ==
            \/ is_positive /\ has_moved_enough
                  /\ e1.last_triggered_direction # Some(TRUE)
            \/ is_negative /\ has_moved_enough
                  /\ e1.last_triggered_direction # Some(FALSE)
    IN  IF should_trigger
        THEN [state |-> AxisState(value, Some(is_positive)),
              fired |-> Some(IF is_positive THEN "positive" ELSE "negative")]
        ELSE [state |-> e1, fired |-> None]

RECURSIVE XAxisEvents(_, _, _, _)
\* the events of axes a..6 of a slot, in axis order
XAxisEvents(controller_id, entries, values, a) ==
    IF a > 6 THEN <<>>
    ELSE LET r == XAxisStep(entries[a], values[a])
         IN  (IF r.fired = None THEN <<>>
              ELSE <<XAxisEvent(controller_id, a, Unwrap(r.fired))>>)
             \o XAxisEvents(controller_id, entries, values, a + 1)

\* One slot in one poll.  got is the answer of get_state: Some(state), or None
\* when the slot is not connected.
XSlotPoll(controller_id, prev_state, entries, got) ==
    IF got = None
    THEN [prev |-> prev_state, entries |-> entries, events |-> <<>>]
    ELSE IF prev_state = None
    THEN [prev |-> got, entries |-> entries, events |-> <<>>]
    ELSE LET state == Unwrap(got)
             buttons_pressed == AndNot(state.wButtons, Unwrap(prev_state).wButtons)
             button_num == ButtonNum(buttons_pressed)
             values == XAxisValues(state)
         IN  [prev |-> got,
              entries |-> [a \in Axes |-> Some(XAxisStep(entries[a], values[a]).state)],
              events |->
                  (IF button_num = 0 THEN <<>>
                   ELSE <<XButtonEvent(controller_id, button_num)>>)
                  \o XAxisEvents(controller_id, entries, values, 1)]

(* ------------------------------------------------------------------ *)
(* HID report decoder (hid_reader.rs)                                  *)
(*                                                                     *)
(* The hidreport crate does the bit-level work.  A descriptor is what   *)
(* ReportDescriptor::try_from makes of it: ok (it parses) and the       *)
(* fields of each input report.  A raw report is what find_input_report *)
(* and extract make of its bytes: matches (the input report it          *)
(* belongs to, 0 for none) and one extracted value per field (None      *)
(* where extract fails; the sequence of values for an Array field).     *)
(* read_ok is FALSE for a read that fails instead of returning bytes.   *)
(* hash_order is the order in which the axis_values HashMap built from  *)
(* the report is iterated.                                              *)
(* ------------------------------------------------------------------ *)
VarField(page, id, lmin, lmax, bits) ==
    [kind |-> "Variable", usage_page |-> page, usage_id |-> id,
     logical_minimum |-> lmin, logical_maximum |-> lmax, bits |-> bits]
ArrayField(bits) ==
    [kind |-> "Array", usage_page |-> ButtonPage, usage_id |-> 0,
     logical_minimum |-> 0, logical_maximum |-> 255, bits |-> bits]
ConstField(bits) ==
    [kind |-> "Constant", usage_page |-> 0, usage_id |-> 0,
     logical_minimum |-> 0, logical_maximum |-> 0, bits |-> bits]

Range(s) == {s[i] : i \in DOMAIN s}

Min2(a, b) == IF a < b THEN a ELSE b
Max2(a, b) == IF a > b THEN a ELSE b

\* value.max(0).min(u16::MAX as i32) as u16
ClampU16(value) == Min2(Max2(value, 0), U16Max)

RECURSIVE BitLengthFloor(_)
\* 31 - range.leading_zeros(): one bit fewer
BitLengthFloor(n) == IF n <= 1 THEN 0 ELSE 1 + BitLengthFloor(n \div 2)

\* the declared width of the field, whatever its logical range
EffectiveBitsDeclared(logical_min, logical_max, bits) == bits

RECURSIVE BitLength(_)
\* 32 - range.leading_zeros(), for range > 0
BitLength(n) == IF n = 0 THEN 0 ELSE 1 + BitLength(n \div 2)

\* let range = (logical_max - logical_min) as u32;
\* let effective_bits = if range > 0 { 32 - range.leading_zeros() } else { bits }
\* A negative difference becomes a u32 with its top bit set, whose bit length
\* is 32 (the differences modelled stay within i32).
EffectiveBits(logical_min, logical_max, bits) ==
    LET range == logical_max - logical_min
    IN  IF range > 0 THEN BitLength(range)
        ELSE IF range < 0 THEN 32
        ELSE bits

EmptyReport ==
    [axis_values |-> <<>>, axis_bit_depths |-> <<>>, axis_ranges |-> <<>>,
     pressed_buttons |-> <<>>, button_index |-> 1]

\* insert into a HashMap: a later insert of the same key replaces the value
Insert(m, k, v) == [x \in (DOMAIN m) \cup {k} |-> IF x = k THEN v ELSE m[x]]

RECURSIVE ArrayButtons(_)
\* for field_value in values { if button_val > 0 && button_val <= 255 { push } }
ArrayButtons(values) ==
    IF values = <<>> THEN <<>>
    ELSE (IF Head(values) > 0 /\ Head(values) <= 255 THEN <<Head(values)>> ELSE <<>>)
         \o ArrayButtons(Tail(values))

\* ParseField with a button number consumed by extracted values only
ParseFieldSkipFailed(acc, field, extracted) ==
    IF field.kind = "Variable" /\ field.usage_page = ButtonPage
    THEN IF extracted = None THEN acc
         ELSE [acc EXCEPT
                 !.pressed_buttons =
                     IF Unwrap(extracted) # 0 THEN Append(@, acc.button_index) ELSE @,
                 !.button_index = @ + 1]
    ELSE IF field.kind = "Variable"
    THEN IF extracted = None THEN acc
         ELSE LET axis_index == field.usage_id
                  value == Unwrap(extracted)
              IN  [acc EXCEPT
                     !.axis_values = Insert(@, axis_index, ClampU16(value)),
                     !.axis_bit_depths =
                         Insert(@, axis_index,
                                EffectiveBits(field.logical_minimum,
                                              field.logical_maximum, field.bits)),
                     !.axis_ranges =
                         Insert(@, axis_index,
                                <<field.logical_minimum, field.logical_maximum>>)]
    ELSE IF field.kind = "Array"
    THEN IF extracted = None THEN acc
         ELSE [acc EXCEPT !.pressed_buttons = @ \o ArrayButtons(Unwrap(extracted))]
    ELSE acc

\* the body of `for field in input_report.fields()` for one field
ParseField(acc, field, extracted) ==
    IF field.kind = "Variable" /\ field.usage_page = ButtonPage
    THEN [acc EXCEPT
            !.pressed_buttons =
                IF extracted # None /\ Unwrap(extracted) # 0
                THEN Append(@, acc.button_index) ELSE @,
            !.button_index = @ + 1]
    ELSE IF field.kind = "Variable"
    THEN IF extracted = None THEN acc
         ELSE LET axis_index == field.usage_id
                  value == Unwrap(extracted)
              IN  [acc EXCEPT
                     !.axis_values = Insert(@, axis_index, ClampU16(value)),
                     !.axis_bit_depths =
                         Insert(@, axis_index,
                                EffectiveBits(field.logical_minimum,
                                              field.logical_maximum, field.bits)),
                     !.axis_ranges =
                         Insert(@, axis_index,
                                <<field.logical_minimum, field.logical_maximum>>)]
    ELSE IF field.kind = "Array"
    THEN IF extracted = None THEN acc
         ELSE [acc EXCEPT !.pressed_buttons = @ \o ArrayButtons(Unwrap(extracted))]
    ELSE acc

RECURSIVE ParseFields(_, _, _, _)
ParseFields(acc, fields, values, i) ==
    IF i > Len(fields) THEN acc
    ELSE ParseFields(ParseField(acc, fields[i], values[i]), fields, values, i + 1)

\* parse_hid_full_report: None for Err, or Some(HidFullReport)
parse_hid_full_report(report, descriptor) ==
    IF ~descriptor.ok THEN None
    ELSE IF report.matches = 0 THEN None
    ELSE LET r == ParseFields(EmptyReport, descriptor.input_reports[report.matches],
                              report.values, 1)
         IN  Some([axis_values |-> r.axis_values,
                   axis_bit_depths |-> r.axis_bit_depths,
                   axis_ranges |-> r.axis_ranges,
                   pressed_buttons |-> r.pressed_buttons])

RECURSIVE AxisFieldUsages(_)
\* the usage ids of the non-button Variable fields of a field list, in order
AxisFieldUsages(fields) ==
    IF fields = <<>> THEN <<>>
    ELSE (IF Head(fields).kind = "Variable" /\ Head(fields).usage_page # ButtonPage
          THEN <<Head(fields).usage_id>> ELSE <<>>)
         \o AxisFieldUsages(Tail(fields))

RECURSIVE Concat(_)
Concat(ss) == IF ss = <<>> THEN <<>> ELSE Head(ss) \o Concat(Tail(ss))

\* get_directinput_to_hid_axis_mapping: DirectInput index (1-based) -> usage id,
\* over all input reports in order; None when the descriptor does not parse
get_directinput_to_hid_axis_mapping(descriptor) ==
    IF ~descriptor.ok THEN None
    ELSE Some(Concat([k \in DOMAIN descriptor.input_reports |->
                    AxisFieldUsages(descriptor.input_reports[k])]))

\* The inversions `for (axis_idx, hid_usage_id) in di_to_hid { insert }` can
\* produce: the HashMap is iterated in arbitrary order, so a usage id that
\* occurs twice keeps either index.
HidToAxisMaps(di_to_hid) ==
    {m \in [Range(di_to_hid) -> DOMAIN di_to_hid] :
        \A u \in DOMAIN m : di_to_hid[m[u]] = u}

(* ------------------------------------------------------------------ *)
(* Device names and the name heuristics (directinput.rs)               *)
(* A name is the sequence of its characters.                           *)
(* ------------------------------------------------------------------ *)
UpperCase == <<"A","B","C","D","E","F","G","H","I","J","K","L","M",
               "N","O","P","Q","R","S","T","U","V","W","X","Y","Z">>
LowerCase == <<"a","b","c","d","e","f","g","h","i","j","k","l","m",
               "n","o","p","q","r","s","t","u","v","w","x","y","z">>

LowerChar(c) ==
    IF \E i \in DOMAIN UpperCase : UpperCase[i] = c
    THEN LowerCase[CHOOSE i \in DOMAIN UpperCase : UpperCase[i] = c]
    ELSE c

to_lowercase(name) == [i \in DOMAIN name |-> LowerChar(name[i])]

contains(hay, needle) ==
    \E i \in 1 .. (Len(hay) - Len(needle) + 1) :
        SubSeq(hay, i, i + Len(needle) - 1) = needle

joystick_indicators ==
    { <<"j","o","y","s","t","i","c","k">>,
      <<"h","o","t","a","s">>,
      <<"t","h","r","o","t","t","l","e">>,
      <<"g","l","a","d","i","a","t","o","r">>,
      <<"w","a","r","t","h","o","g">>,
      <<"t","1","6","0","0","0">>,
      <<"v","k","b">>,
      <<"v","k","b","s","i","m">>,
      <<"v","i","r","p","i","l">>,
      <<"t","h","r","u","s","t","m","a","s","t","e","r">>,
      <<"s","a","i","t","e","k">>,
      <<"x","5","2">>,
      <<"x","5","6">> }

gamepad_indicators ==
    { <<"x","b","o","x">>,
      <<"p","l","a","y","s","t","a","t","i","o","n">>,
      <<"d","u","a","l","s","h","o","c","k">>,
      <<"d","u","a","l","s","e","n","s","e">>,
      <<"p","s","3">>,
      <<"p","s","4">>,
      <<"p","s","5">>,
      <<"c","o","n","t","r","o","l","l","e","r"," ","f","o","r"," ",
        "w","i","n","d","o","w","s">>,
      <<"g","a","m","e","p","a","d">>,
      <<"x","i","n","p","u","t">> }

\* is_gamepad with the gamepad indicators checked first
is_gamepad_GamepadFirst(name) ==
    LET name_lower == to_lowercase(name)
    IN  \E indicator \in gamepad_indicators : contains(name_lower, indicator)

is_gamepad(name) ==
    LET name_lower == to_lowercase(name)
    IN  IF \E indicator \in joystick_indicators : contains(name_lower, indicator)
        THEN FALSE
        ELSE \E indicator \in gamepad_indicators : contains(name_lower, indicator)

\* detect_joysticks: full_name = "{manufacturer} {product}", or the product alone
FullName(device) ==
    LET device_name ==
            IF device.product = None
            THEN <<"U","n","k","n","o","w","n"," ","H","I","D"," ",
                   "D","e","v","i","c","e">>
            ELSE Unwrap(device.product)
        manufacturer ==
            IF device.manufacturer = None THEN <<>> ELSE Unwrap(device.manufacturer)
    IN  IF manufacturer # <<>> THEN manufacturer \o <<" ">> \o device_name
        ELSE device_name

\* detect_joysticks: "Skip Xbox controllers as they'll be added via XInput"
SkippedByDetectJoysticks(windows, device) ==
    LET lower == to_lowercase(FullName(device))
    IN  windows /\ (\/ contains(lower, <<"x","b","o","x">>)
                    \/ contains(lower, <<"x","i","n","p","u","t">>)
                    \/ contains(lower, <<"c","o","n","t","r","o","l","l","e","r"," ",
                                         "f","o","r"," ","w","i","n","d","o","w","s">>))

\* list_connected_devices: the same skip, on the product name and two keywords
SkippedByListConnected(windows, device) ==
    LET name == IF device.product = None
                THEN <<"U","n","k","n","o","w","n"," ","D","e","v","i","c","e">>
                ELSE Unwrap(device.product)
        lower == to_lowercase(name)
    IN  windows /\ (\/ contains(lower, <<"x","b","o","x">>)
                    \/ contains(lower, <<"x","i","n","p","u","t">>))

(* ------------------------------------------------------------------ *)
(* HID part of InputDetector::poll                                     *)
(* ------------------------------------------------------------------ *)
HidUuid(device) == <<device.vendor_id, device.product_id>>

HidButtonEvent(device, device_instance, button_num) ==
    [input_string |-> <<"js", device_instance, "button", button_num>>,
     device_type |-> "Joystick",
     device_uuid |-> HidUuid(device)]

HidHatEvent(device, device_instance, direction) ==
    [input_string |-> <<"js", device_instance, "hat", 1, direction>>,
     device_type |-> "Joystick",
     device_uuid |-> HidUuid(device)]

HidAxisEvent(device, device_instance, axis_index, direction) ==
    [input_string |-> <<"js", device_instance, "axis", axis_index, direction>>,
     device_type |-> "Joystick",
     device_uuid |-> HidUuid(device)]

\* match current_value { 0 | 1 => up, 2 | 3 => right, 4 | 5 => down, 6 | 7 => left }
hat_direction(current_value) ==
    CASE current_value \in {0, 1} -> Some("up")
      [] current_value \in {2, 3} -> Some("right")
      [] current_value \in {4, 5} -> Some("down")
      [] current_value \in {6, 7} -> Some("left")
      [] OTHER -> None

\* the axis index of an event: the inverted DirectInput map, else the 1-based
\* position of the usage id among the sorted keys of this report
AxisIndex(hid_to_axis, current_report, axis_id) ==
    IF hid_to_axis # None /\ axis_id \in DOMAIN Unwrap(hid_to_axis)
    THEN Unwrap(hid_to_axis)[axis_id]
    ELSE Cardinality({id \in DOMAIN current_report.axis_values : id < axis_id}) + 1

\* normalized > 0.0, with normalized = (current - min) / range * 2 - 1
NormalizedPositive(current_value, logical_min, range) ==
    2 * (current_value - logical_min) > range

\* HidAxisCheck with the direction taken from the sign of the change
HidAxisCheckSignOfChange(device, device_instance, hid_to_axis, prev_report, current_report, axis_id) ==
    LET current_value == current_report.axis_values[axis_id]
        prev_value == IF axis_id \in DOMAIN prev_report.axis_values
                      THEN prev_report.axis_values[axis_id] ELSE 0
        logical_min == current_report.axis_ranges[axis_id][1]
        logical_max == current_report.axis_ranges[axis_id][2]
        range == logical_max - logical_min
        change_abs == Abs(current_value - prev_value)
    IN  IF range <= 0 THEN <<>>
        ELSE IF change_abs < AXIS_CHANGE_THRESHOLD THEN <<>>
        ELSE IF axis_id = HatUsage
        THEN (IF hat_direction(current_value) = None THEN <<>>
              ELSE <<HidHatEvent(device, device_instance,
                                 Unwrap(hat_direction(current_value)))>>)
        ELSE <<HidAxisEvent(device, device_instance,
                            AxisIndex(hid_to_axis, current_report, axis_id),
                            IF current_value > prev_value
                            THEN "positive" ELSE "negative")>>

\* HidAxisCheck firing only beyond the trigger threshold of the XInput detector
HidAxisCheckHysteresis(device, device_instance, hid_to_axis, prev_report, current_report, axis_id) ==
    LET current_value == current_report.axis_values[axis_id]
        prev_value == IF axis_id \in DOMAIN prev_report.axis_values
                      THEN prev_report.axis_values[axis_id] ELSE 0
        logical_min == current_report.axis_ranges[axis_id][1]
        logical_max == current_report.axis_ranges[axis_id][2]
        range == logical_max - logical_min
        change_abs == Abs(current_value - prev_value)
        beyond == \/ 4 * (current_value - logical_min) > 3 * range
                  \/ 4 * (current_value - logical_min) < range
    IN  IF range <= 0 THEN <<>>
        ELSE IF change_abs < AXIS_CHANGE_THRESHOLD \/ ~beyond THEN <<>>
        ELSE IF axis_id = HatUsage
        THEN (IF hat_direction(current_value) = None THEN <<>>
              ELSE <<HidHatEvent(device, device_instance,
                                 Unwrap(hat_direction(current_value)))>>)
        ELSE <<HidAxisEvent(device, device_instance,
                            AxisIndex(hid_to_axis, current_report, axis_id),
                            IF NormalizedPositive(current_value, logical_min, range)
                            THEN "positive" ELSE "negative")>>

\* the body of `for (&axis_id, &current_value) in &current_report.axis_values`
HidAxisCheck(device, device_instance, hid_to_axis, prev_report, current_report, axis_id) ==
    LET current_value == current_report.axis_values[axis_id]
        prev_value == IF axis_id \in DOMAIN prev_report.axis_values
                      THEN prev_report.axis_values[axis_id] ELSE 0
        logical_min == current_report.axis_ranges[axis_id][1]
        logical_max == current_report.axis_ranges[axis_id][2]
        range == logical_max - logical_min
        change_abs == Abs(current_value - prev_value)
    IN  IF range <= 0 THEN <<>>
        ELSE IF change_abs < AXIS_CHANGE_THRESHOLD THEN <<>>
        ELSE IF axis_id = HatUsage
        THEN (IF hat_direction(current_value) = None THEN <<>>
              ELSE <<HidHatEvent(device, device_instance,
                                 Unwrap(hat_direction(current_value)))>>)
        ELSE <<HidAxisEvent(device, device_instance,
                            AxisIndex(hid_to_axis, current_report, axis_id),
                            IF NormalizedPositive(current_value, logical_min, range)
                            THEN "positive" ELSE "negative")>>

\* NewlyPressed without the filter on the previous buttons
NewlyPressedAll(current_buttons, prev_buttons) == current_buttons

\* newly_pressed: the current buttons not among the previous ones, in Vec order
NewlyPressed(current_buttons, prev_buttons) ==
    SelectSeq(current_buttons, LAMBDA btn : btn \notin Range(prev_buttons))

\* HidButtonCheck taking a missing previous report for one with no button pressed
HidButtonCheckNoBaseline(device, device_instance, prev, current_report) ==
    LET newly_pressed ==
            NewlyPressed(current_report.pressed_buttons,
                         IF prev = None THEN <<>> ELSE Unwrap(prev).pressed_buttons)
    IN  IF newly_pressed = <<>> THEN <<>>
        ELSE <<HidButtonEvent(device, device_instance, newly_pressed[1])>>

\* HidButtonCheck with one event for every newly pressed button
HidButtonCheckEvery(device, device_instance, prev, current_report) ==
    IF prev = None THEN <<>>
    ELSE LET newly_pressed ==
                 NewlyPressed(current_report.pressed_buttons,
                              Unwrap(prev).pressed_buttons)
         IN  [k \in DOMAIN newly_pressed |->
                 HidButtonEvent(device, device_instance, newly_pressed[k])]

\* HidButtonCheck that reports the lowest-numbered newly pressed button
HidButtonCheckLowest(device, device_instance, prev, current_report) ==
    IF prev = None THEN <<>>
    ELSE LET newly_pressed ==
                 NewlyPressed(current_report.pressed_buttons,
                              Unwrap(prev).pressed_buttons)
         IN  IF newly_pressed = <<>> THEN <<>>
             ELSE <<HidButtonEvent(device, device_instance,
                        CHOOSE b \in Range(newly_pressed) :
                            \A o \in Range(newly_pressed) : b <= o)>>

\* the button check of one decoded report
HidButtonCheck(device, device_instance, prev, current_report) ==
    IF prev = None THEN <<>>
    ELSE LET newly_pressed ==
                 NewlyPressed(current_report.pressed_buttons,
                              Unwrap(prev).pressed_buttons)
         IN  IF newly_pressed = <<>> THEN <<>>
             ELSE <<HidButtonEvent(device, device_instance, newly_pressed[1])>>

RECURSIVE HidAxisChecks(_, _, _, _, _, _)
HidAxisChecks(device, device_instance, hid_to_axis, prev_report, current_report, order) ==
    IF order = <<>> THEN <<>>
    ELSE (IF Head(order) \in DOMAIN current_report.axis_values
          THEN HidAxisCheck(device, device_instance, hid_to_axis, prev_report,
                            current_report, Head(order))
          ELSE <<>>)
         \o HidAxisChecks(device, device_instance, hid_to_axis, prev_report,
                          current_report, Tail(order))

\* HidReportStep that drops the previous snapshot when a report does not decode
HidReportStepForget(device, device_instance, hid_to_axis, descriptor, prev, raw) ==
    LET parsed == parse_hid_full_report(raw, descriptor)
    IN  IF parsed = None
        THEN [prev |-> None, events |-> <<>>, current |-> None]
        ELSE LET current_report == Unwrap(parsed)
             IN  [prev |-> parsed,
                  current |-> parsed,
                  events |->
                      HidButtonCheck(device, device_instance, prev, current_report)
                      \o (IF prev = None THEN <<>>
                          ELSE HidAxisChecks(device, device_instance, hid_to_axis,
                                             Unwrap(prev), current_report,
                                             raw.hash_order))]

\* One raw report that was read: parse, button check, axis check, and the
\* insert into prev_hid_reports.  prev is the device's entry of
\* prev_hid_reports (None when it has none).
HidReportStep(device, device_instance, hid_to_axis, descriptor, prev, raw) ==
    LET parsed == parse_hid_full_report(raw, descriptor)
    IN  IF parsed = None
        THEN [prev |-> prev, events |-> <<>>, current |-> None]
        ELSE LET current_report == Unwrap(parsed)
             IN  [prev |-> parsed,
                  current |-> parsed,
                  events |->
                      HidButtonCheck(device, device_instance, prev, current_report)
                      \o (IF prev = None THEN <<>>
                          ELSE HidAxisChecks(device, device_instance, hid_to_axis,
                                             Unwrap(prev), current_report,
                                             raw.hash_order))]

RECURSIVE DrainPastFailure(_, _, _, _, _, _, _)
\* Drain with a failed read passed over: the drain goes on to the next read
DrainPastFailure(device, device_instance, hid_to_axis, descriptor, prev, queue, reports_processed) ==
    IF reports_processed >= ReadCap \/ queue = <<>>
    THEN [prev |-> prev, queue |-> queue, events |-> <<>>, log |-> <<>>]
    ELSE IF ~Head(queue).read_ok
    THEN LET rest == DrainPastFailure(device, device_instance, hid_to_axis, descriptor,
                                      prev, Tail(queue), reports_processed)
         IN  [rest EXCEPT !.log =
                  << [path |-> device.path, instance |-> device_instance,
                      prev |-> prev, raw |-> Head(queue),
                      current |-> None, events |-> <<>>] >> \o @]
    ELSE LET st == HidReportStep(device, device_instance, hid_to_axis, descriptor,
                                 prev, Head(queue))
             rest == DrainPastFailure(device, device_instance, hid_to_axis, descriptor,
                                      st.prev, Tail(queue), reports_processed + 1)
         IN  [prev |-> rest.prev,
              queue |-> rest.queue,
              events |-> st.events \o rest.events,
              log |-> << [path |-> device.path, instance |-> device_instance,
                          prev |-> prev, raw |-> Head(queue),
                          current |-> st.current, events |-> st.events] >>
                      \o rest.log]

RECURSIVE DrainUncountedUndecoded(_, _, _, _, _, _, _)
\* Drain with reports_processed advanced after a successful decode only
DrainUncountedUndecoded(device, device_instance, hid_to_axis, descriptor, prev, queue, reports_processed) ==
    IF reports_processed >= ReadCap \/ queue = <<>>
    THEN [prev |-> prev, queue |-> queue, events |-> <<>>, log |-> <<>>]
    ELSE IF ~Head(queue).read_ok
    THEN [prev |-> prev, queue |-> Tail(queue), events |-> <<>>,
          log |-> << [path |-> device.path, instance |-> device_instance,
                      prev |-> prev, raw |-> Head(queue),
                      current |-> None, events |-> <<>>] >>]
    ELSE LET st == HidReportStep(device, device_instance, hid_to_axis, descriptor,
                                 prev, Head(queue))
             rest == DrainUncountedUndecoded(device, device_instance, hid_to_axis,
                           descriptor, st.prev, Tail(queue),
                           IF st.current = None THEN reports_processed
                           ELSE reports_processed + 1)
         IN  [prev |-> rest.prev,
              queue |-> rest.queue,
              events |-> st.events \o rest.events,
              log |-> << [path |-> device.path, instance |-> device_instance,
                          prev |-> prev, raw |-> Head(queue),
                          current |-> st.current, events |-> st.events] >>
                      \o rest.log]

RECURSIVE Drain(_, _, _, _, _, _, _)
\* the read loop of one device: up to ReadCap reads, stopping at an empty
\* read or a read error
Drain(device, device_instance, hid_to_axis, descriptor, prev, queue, reports_processed) ==
    IF reports_processed >= ReadCap \/ queue = <<>>
    THEN [prev |-> prev, queue |-> queue, events |-> <<>>, log |-> <<>>]
    ELSE IF ~Head(queue).read_ok
    THEN [prev |-> prev, queue |-> Tail(queue), events |-> <<>>,
          log |-> << [path |-> device.path, instance |-> device_instance,
                      prev |-> prev, raw |-> Head(queue),
                      current |-> None, events |-> <<>>] >>]
    ELSE LET st == HidReportStep(device, device_instance, hid_to_axis, descriptor,
                                 prev, Head(queue))
             rest == Drain(device, device_instance, hid_to_axis, descriptor,
                           st.prev, Tail(queue), reports_processed + 1)
         IN  [prev |-> rest.prev,
              queue |-> rest.queue,
              events |-> st.events \o rest.events,
              log |-> << [path |-> device.path, instance |-> device_instance,
                          prev |-> prev, raw |-> Head(queue),
                          current |-> st.current, events |-> st.events] >>
                      \o rest.log]

(* ------------------------------------------------------------------ *)
(* Bounds of the model                                                 *)
(* ------------------------------------------------------------------ *)
\* reports the OS queue of a device holds at most between two polls
MaxQueue == 2
\* the observer keeps the last HistCap fired directions of an excursion
HistCap == 3
\* the observer counts events up to CountCap
CountCap == 3

(* ------------------------------------------------------------------ *)
(* The hardware: what is plugged in and what it can send               *)
(* ------------------------------------------------------------------ *)
Name(chars) == Some(chars)

Item(path, vendor_id, product_id, product) ==
    [path |-> path, vendor_id |-> vendor_id, product_id |-> product_id,
     product |-> product, manufacturer |-> None]

\* open_ok: OpenedHidDevice::open succeeds; descriptor_ok and mapping_ok: the
\* two later get_hid_descriptor_bytes calls of InputDetector::new succeed
EnvDevice(item, descriptor, reports) ==
    [item |-> item, descriptor |-> descriptor, open_ok |-> TRUE,
     descriptor_ok |-> TRUE, mapping_ok |-> TRUE, reports |-> reports]

Descriptor(fields) == [ok |-> TRUE, input_reports |-> <<fields>>]

ButtonFields(n) == [k \in 1 .. n |-> VarField(ButtonPage, k, 0, 1, 1)]

\* generic-desktop X (0x30) with logical range r, then Y (0x31)
XYFields(r) == << VarField(1, 48, r[1], r[2], 16), VarField(1, 49, 0, 1023, 16) >>

RawReport(values, order) ==
    [read_ok |-> TRUE, matches |-> 1, values |-> values, hash_order |-> order]

\* a report no input report of the descriptor matches
BadReport == [read_ok |-> TRUE, matches |-> 0, values |-> <<>>, hash_order |-> <<>>]

ButtonValues(n, pressed) == [k \in 1 .. n |-> Some(IF k \in pressed THEN 1 ELSE 0)]

Mid(r) == (r[1] + r[2]) \div 2

StickSamples == {-32768, 0, 9830, 12000, 16385, 17000, 32767}

StickPads ==
    {None} \cup {Some(Pad(0, lx, 0)) : lx \in StickSamples}
           \cup {Some(Pad(4096, 32767, 255))}

VendorEnv ==
    [hid_api |-> TRUE, xinput_loaded |-> TRUE, windows |-> TRUE,
     pads |-> [c \in Slots |-> IF c = 0 THEN StickPads ELSE {None}],
     hid |-> <<>>]

NoPads == [c \in Slots |-> {None}]

\* a joystick with X, Y and seven buttons
ButtonsEnv ==
    [hid_api |-> TRUE, xinput_loaded |-> FALSE, windows |-> FALSE, pads |-> NoPads,
     hid |-> << EnvDevice(
         Item("hid1", 8989, 512, Name(<<"V","K","B"," ","G","l","a","d","i","a","t","o","r">>)),
         Descriptor(XYFields(<<0, 1023>>) \o ButtonFields(7)),
         { RawReport(<<Some(512), Some(512)>> \o ButtonValues(7, b), <<48, 49>>) :
               b \in {{}, {3}, {7}, {3, 7}, {1, 3, 7}} }
         \cup { RawReport(<<Some(1023), Some(512)>> \o ButtonValues(7, {3}), <<49, 48>>),
                BadReport }) >>]

AxisRanges == { <<0, 63>>, <<0, 255>>, <<0, 1023>>, <<0, 65535>>,
                <<-127, 127>>, <<-100, -10>> }

XSamples(r) == IF r = <<0, 1023>> THEN {0, 511, 600, 1023} ELSE {Mid(r), r[2]}
YSamples(r) == IF r = <<0, 1023>> THEN {512, 600} ELSE {512}

\* a joystick with X (logical range r) and Y only
AxisEnv(r) ==
    [hid_api |-> TRUE, xinput_loaded |-> FALSE, windows |-> FALSE, pads |-> NoPads,
     hid |-> << EnvDevice(
         Item("hid1", 1103, 1026, Name(<<"T",".","F","l","i","g","h","t">>)),
         Descriptor(XYFields(r)),
         { RawReport(<<Some(x), Some(y)>>, o) :
               x \in XSamples(r), y \in YSamples(r),
               o \in IF r = <<0, 1023>> THEN {<<48, 49>>, <<49, 48>>} ELSE {<<48, 49>>} }) >>]

\* a joystick with X and a hat switch (0x39) in an 8-bit field
HatEnv ==
    [hid_api |-> TRUE, xinput_loaded |-> FALSE, windows |-> FALSE, pads |-> NoPads,
     hid |-> << EnvDevice(
         Item("hid1", 1103, 1026, Name(<<"T",".","F","l","i","g","h","t">>)),
         Descriptor(<< VarField(1, 48, 0, 1023, 16), VarField(1, HatUsage, 0, 7, 8) >>),
         { RawReport(<<Some(512), Some(h)>>, <<48, HatUsage>>) :
               h \in {0, 1, 3, 4, 7, 8, 15, 255} }) >>]

\* a HID pad the name heuristic classifies as gamepad
GamepadEnv ==
    [hid_api |-> TRUE, xinput_loaded |-> FALSE, windows |-> FALSE, pads |-> NoPads,
     hid |-> << EnvDevice(
         Item("hid1", 1356, 3302,
              Name(<<"D","u","a","l","S","e","n","s","e"," ","P","a","d">>)),
         Descriptor(XYFields(<<0, 255>>) \o ButtonFields(2)),
         { RawReport(<<Some(x), Some(128)>> \o ButtonValues(2, b), <<48, 49>>) :
               x \in {128, 255}, b \in {{}, {1}} }) >>]

\* an Xbox pad that Windows exposes both through XInput (slot 0) and as a HID
\* game controller
BothEnv ==
    [hid_api |-> TRUE, xinput_loaded |-> TRUE, windows |-> TRUE,
     pads |-> [c \in Slots |->
                 IF c = 0 THEN {None, Some(Pad(0, 0, 0)), Some(Pad(4096, 32767, 0))}
                 ELSE {None}],
     hid |-> << EnvDevice(
         Item("hid1", 1118, 654,
              Name(<<"X","b","o","x"," ","C","o","n","t","r","o","l","l","e","r">>)),
         Descriptor(XYFields(<<0, 1023>>) \o ButtonFields(2)),
         { RawReport(<<Some(512), Some(512)>> \o ButtonValues(2, {}), <<48, 49>>),
           RawReport(<<Some(1023), Some(512)>> \o ButtonValues(2, {1}), <<48, 49>>) }) >>]

VendorScenarios == {VendorEnv}
HidScenarios == {ButtonsEnv, HatEnv, GamepadEnv} \cup {AxisEnv(r) : r \in AxisRanges}
BothScenarios == {BothEnv}

\* what get_state can answer for the four slots in one poll
PadChoices(e) ==
    {got \in [Slots -> UNION {e.pads[c] : c \in Slots}] :
        \A c \in Slots : got[c] \in e.pads[c]}

(* ------------------------------------------------------------------ *)
(* Observer of slot 0, axis 1 (left stick X): the samples the axis      *)
(* detector saw and the events it fired, kept apart from the detector's *)
(* own AxisState.                                                       *)
(*   phase  idle, or where the sample sequence stands in the pattern    *)
(*          dead zone (start), above +0.5 (up1), dead zone again (mid), *)
(*          above +0.5 again (up2); a sample below -0.5 leaves it       *)
(*   pos, neg      events fired since the pattern began                 *)
(*   center        the last dead-zone sample                            *)
(*   strong1/2     the first/second rise had a sample more than 0.3     *)
(*                 above the dead-zone sample before it                 *)
(*   run           directions fired since the last dead-zone sample     *)
(*   sample, fired the sample and the directions of the last poll       *)
(* ------------------------------------------------------------------ *)
ObsCentered(v) == 10 * Abs(v) < AXIS_RESET_THRESHOLD * Unit
ObsAbove(v) == 10 * v > AXIS_TRIGGER_THRESHOLD * Unit
ObsBelow(v) == 10 * v < -(AXIS_TRIGGER_THRESHOLD * Unit)
ObsStrong(v, c) == 10 * (v - c) > MOVEMENT_THRESHOLD * Unit

IdleHist ==
    [phase |-> "idle", pos |-> 0, neg |-> 0, center |-> 0,
     strong1 |-> FALSE, strong2 |-> FALSE, run |-> <<>>,
     sample |-> None, fired |-> <<>>]

StartHist(v) == [IdleHist EXCEPT !.phase = "start", !.center = v]

LastN(n, seq) == IF Len(seq) <= n THEN seq ELSE SubSeq(seq, Len(seq) - n + 1, Len(seq))

CountOf(seq, x) == Cardinality({i \in DOMAIN seq : seq[i] = x})

ObservePhase(h, v) ==
    IF ObsBelow(v) THEN IdleHist
    ELSE IF ObsCentered(v)
    THEN (IF h.phase \in {"idle", "up2"} THEN StartHist(v)
          ELSE IF h.phase = "start" THEN [h EXCEPT !.center = v]
          ELSE [h EXCEPT !.phase = "mid", !.center = v])
    ELSE IF ObsAbove(v)
    THEN (IF h.phase = "start"
          THEN [h EXCEPT !.phase = "up1", !.strong1 = ObsStrong(v, h.center)]
          ELSE IF h.phase = "up1"
          THEN [h EXCEPT !.strong1 = @ \/ ObsStrong(v, h.center)]
          ELSE IF h.phase = "mid"
          THEN [h EXCEPT !.phase = "up2", !.strong2 = ObsStrong(v, h.center)]
          ELSE IF h.phase = "up2"
          THEN [h EXCEPT !.strong2 = @ \/ ObsStrong(v, h.center)]
          ELSE h)
    ELSE h

Observe(h, sample, fired) ==
    IF sample = None THEN [h EXCEPT !.sample = None, !.fired = <<>>]
    ELSE LET v == Unwrap(sample)
             h1 == ObservePhase(h, v)
             counted == h1.phase # "idle"
         IN  [h1 EXCEPT
                !.pos = IF counted
                        THEN Min2(CountCap, @ + CountOf(fired, "positive")) ELSE 0,
                !.neg = IF counted
                        THEN Min2(CountCap, @ + CountOf(fired, "negative")) ELSE 0,
                !.run = LastN(HistCap, (IF ObsCentered(v) THEN <<>> ELSE h.run) \o fired),
                !.sample = sample,
                !.fired = fired]

\* the directions of the events of slot 0, axis 1 in a poll's result
FiredOnTracked(events) ==
    LET idx == {i \in DOMAIN events : SubSeq(events[i].input_string, 1, 4) = <<"gp", 1, "axis", 1>>}
    IN  IF idx = {} THEN <<>>
        ELSE [k \in 1 .. Cardinality(idx) |->
                 events[CHOOSE i \in idx : Cardinality({j \in idx : j <= i}) = k]
                     .input_string[5]]

(* ------------------------------------------------------------------ *)
(* InputDetector::new                                                  *)
(* ------------------------------------------------------------------ *)
\* list_hid_game_controllers that answers from a stale device list when
\* HidApi::new() fails
list_hid_game_controllers_Stale(e) == Some(e.hid)

\* list_hid_game_controllers: Err when HidApi::new() fails, else the devices
\* of the two game-controller usages, in the order the OS enumerates them
list_hid_game_controllers(e) == IF e.hid_api THEN Some(e.hid) ELSE None


\* hid_reader::list_hid_game_controllers().unwrap_or_default()
EnumeratedHid(e) ==
    IF list_hid_game_controllers(e) = None THEN <<>>
    ELSE Unwrap(list_hid_game_controllers(e))

OpenedPaths(e) == {EnumeratedHid(e)[i].item.path : i \in {j \in DOMAIN EnumeratedHid(e) : EnumeratedHid(e)[j].open_ok}}

DescribedIdx(e) == {i \in DOMAIN EnumeratedHid(e) : EnumeratedHid(e)[i].open_ok /\ EnumeratedHid(e)[i].descriptor_ok}

MappedIdx(e) ==
    {i \in DescribedIdx(e) :
        EnumeratedHid(e)[i].mapping_ok
        /\ get_directinput_to_hid_axis_mapping(EnumeratedHid(e)[i].descriptor) # None}

\* the instance numbers counted over the devices that opened only
InstanceOfOpened(e, p) ==
    LET i == CHOOSE i \in DescribedIdx(e) : EnumeratedHid(e)[i].item.path = p
    IN  Cardinality({j \in DescribedIdx(e) : j <= i})

\* device_instances.insert(device.path.clone(), idx + 1), idx from enumerate()
InstanceOf(e, p) == (CHOOSE i \in DescribedIdx(e) : EnumeratedHid(e)[i].item.path = p) - 1 + 1

IdxOfPath(devices, path) == CHOOSE i \in DOMAIN devices : devices[i].path = path

\* got0: what get_state answers per slot during construction
Init_new(e, got0) ==
    /\ env = e
    /\ xinput = e.xinput_loaded
    /\ xinput_prev_states = [c \in Slots |-> IF e.xinput_loaded THEN got0[c] ELSE None]
    /\ xinput_axis_states =
           [c \in Slots |->
               [a \in Axes |->
                   IF e.xinput_loaded /\ got0[c] # None
                   THEN Some(AxisState(XAxisValues(Unwrap(got0[c]))[a], None))
                   ELSE None]]
    /\ hid_devices = [i \in DOMAIN EnumeratedHid(e) |-> EnumeratedHid(e)[i].item]
    /\ opened_devices = OpenedPaths(e)
    /\ device_descriptors =
           [p \in {EnumeratedHid(e)[i].item.path : i \in DescribedIdx(e)} |->
               EnumeratedHid(e)[CHOOSE i \in DescribedIdx(e) : EnumeratedHid(e)[i].item.path = p].descriptor]
    /\ device_instances =
           [p \in {EnumeratedHid(e)[i].item.path : i \in DescribedIdx(e)} |-> InstanceOf(e, p)]
    /\ device_hid_to_axis_maps \in
           {m \in [{EnumeratedHid(e)[i].item.path : i \in MappedIdx(e)} ->
                     UNION {HidToAxisMaps(Unwrap(get_directinput_to_hid_axis_mapping(
                                EnumeratedHid(e)[i].descriptor))) : i \in MappedIdx(e)}] :
               \A p \in DOMAIN m :
                   m[p] \in HidToAxisMaps(Unwrap(get_directinput_to_hid_axis_mapping(
                       EnumeratedHid(e)[CHOOSE i \in MappedIdx(e) : EnumeratedHid(e)[i].item.path = p]
                           .descriptor)))}
    /\ prev_hid_reports = <<>>
    /\ hid_queue = [p \in OpenedPaths(e) |-> <<>>]
    /\ detected_inputs = <<>>
    /\ polled = [c \in Slots |-> None]
    /\ poll_log = <<>>
    /\ hist = IF e.xinput_loaded /\ got0[0] # None
                 /\ ObsCentered(XAxisValues(Unwrap(got0[0]))[1])
              THEN StartHist(XAxisValues(Unwrap(got0[0]))[1])
              ELSE IdleHist

(* ------------------------------------------------------------------ *)
(* detect_joysticks and list_connected_devices                         *)
(* A result is Some(list) for Ok(list); neither function returns Err.  *)
(* got is what get_state answers per slot during the call.             *)
(* ------------------------------------------------------------------ *)
Digits == <<"0","1","2","3">>

\* format!("Xbox Controller (XInput {})", controller_id)
XInputName(controller_id) ==
    <<"X","b","o","x"," ","C","o","n","t","r","o","l","l","e","r"," ","(","X","I","n","p","u","t"," ">>
    \o <<Digits[controller_id + 1]>> \o <<")">>

\* get_axis_names_from_descriptor(&device.path) as detect_joysticks uses it:
\* Some(number of names) or None for Err.  The names are keyed by usage id.
AxisNameCount(e, d) ==
    IF ~(e.hid_api /\ d.open_ok /\ d.descriptor_ok /\ d.descriptor.ok) THEN None
    ELSE Some(Cardinality(UNION {Range(AxisFieldUsages(d.descriptor.input_reports[k])) :
                                    k \in DOMAIN d.descriptor.input_reports}))

RECURSIVE HidJoysticks(_, _, _)
\* for (idx, device) in hid_devices.iter().enumerate() { .. joysticks.push(..) }
HidJoysticks(e, devices, joysticks) ==
    IF devices = <<>> THEN joysticks
    ELSE LET d == Head(devices)
             full_name == FullName(d.item)
             axes == AxisNameCount(e, d)
         IN  IF SkippedByDetectJoysticks(e.windows, d.item)
             THEN HidJoysticks(e, Tail(devices), joysticks)
             ELSE HidJoysticks(e, Tail(devices),
                      Append(joysticks,
                             [id |-> Len(joysticks) + 1,
                              name |-> full_name,
                              button_count |-> 32,
                              axis_count |-> IF axes = None THEN 6 ELSE Unwrap(axes),
                              hat_count |-> 1,
                              device_type |-> IF is_gamepad(full_name)
                                              THEN "Gamepad" ELSE "Joystick",
                              uuid |-> Some(HidUuid(d.item))]))

RECURSIVE XInputJoysticks(_, _, _)
\* for controller_id in 0..4 { if xinput.get_state(controller_id).is_ok() { push } }
XInputJoysticks(got, controller_id, joysticks) ==
    IF controller_id >= XSlotCount THEN joysticks
    ELSE XInputJoysticks(got, controller_id + 1,
             IF got[controller_id] = None THEN joysticks
             ELSE Append(joysticks,
                         [id |-> Len(joysticks) + 1,
                          name |-> XInputName(controller_id),
                          button_count |-> 15, axis_count |-> 6, hat_count |-> 1,
                          device_type |-> "Gamepad",
                          uuid |-> None]))

\* detect_joysticks with the enumeration error returned to the caller (`?`)
detect_joysticks_Propagate(e, got) ==
    LET listed == list_hid_game_controllers(e)
    IN  IF listed = None THEN None
        ELSE Some(IF e.xinput_loaded
                  THEN XInputJoysticks(got, 0, HidJoysticks(e, Unwrap(listed), <<>>))
                  ELSE HidJoysticks(e, Unwrap(listed), <<>>))

detect_joysticks(e, got) ==
    LET listed == list_hid_game_controllers(e)
        joysticks == IF listed = None THEN <<>>
                     ELSE HidJoysticks(e, Unwrap(listed), <<>>)
    IN  Some(IF e.xinput_loaded THEN XInputJoysticks(got, 0, joysticks) ELSE joysticks)

\* format!("{:04x}:{:04x}", vendor_id, product_id) and format!("xinput_{}", i):
\* texts of two shapes, equal only when shape and numbers are
HidUuidText(device) == [xinput |-> FALSE, a |-> device.vendor_id, b |-> device.product_id]
XInputUuidText(i) == [xinput |-> TRUE, a |-> i, b |-> 0]

RECURSIVE HidDeviceInfos(_, _, _)
\* for device in hid_devices { .. devices.push(DeviceInfo { .. }) }
HidDeviceInfos(e, hid, devices) ==
    IF hid = <<>> THEN devices
    ELSE LET device == Head(hid).item
             name == IF device.product = None
                     THEN <<"U","n","k","n","o","w","n"," ","D","e","v","i","c","e">>
                     ELSE Unwrap(device.product)
             is_gamepad_device == is_gamepad(name)
         IN  IF SkippedByListConnected(e.windows, device)
             THEN HidDeviceInfos(e, Tail(hid), devices)
             ELSE HidDeviceInfos(e, Tail(hid),
                      Append(devices,
                             [uuid |-> HidUuidText(device),
                              name |-> name,
                              axis_count |-> IF is_gamepad_device THEN 6 ELSE 7,
                              button_count |-> IF is_gamepad_device THEN 15 ELSE 32,
                              hat_count |-> 1,
                              device_type |-> IF is_gamepad_device
                                              THEN "gamepad" ELSE "joystick",
                              is_connected |-> TRUE]))

RECURSIVE XInputDeviceInfos(_, _, _)
\* for i in 0..4 { if get_state(i).is_ok() { if !devices.iter().any(same uuid) { push } } }
XInputDeviceInfos(got, i, devices) ==
    IF i >= XSlotCount THEN devices
    ELSE XInputDeviceInfos(got, i + 1,
             IF got[i] = None
                \/ \E k \in DOMAIN devices : devices[k].uuid = XInputUuidText(i)
             THEN devices
             ELSE Append(devices,
                         [uuid |-> XInputUuidText(i),
                          name |-> XInputName(i),
                          axis_count |-> 6, button_count |-> 15, hat_count |-> 1,
                          device_type |-> "Gamepad",
                          is_connected |-> TRUE]))

list_connected_devices(e, got) ==
    LET devices == HidDeviceInfos(e, EnumeratedHid(e), <<>>)
    IN  Some(IF e.xinput_loaded THEN XInputDeviceInfos(got, 0, devices) ELSE devices)

(* ------------------------------------------------------------------ *)
(* InputDetector::poll                                                 *)
(* ------------------------------------------------------------------ *)
PrevOf(path) ==
    IF path \in DOMAIN prev_hid_reports THEN Some(prev_hid_reports[path]) ELSE None

IsPolled(device) ==
    device.path \in DOMAIN device_descriptors /\ device.path \in opened_devices

\* the drain of the i-th device of hid_devices (nothing for a skipped device)
HidDevicePoll(i) ==
    LET device == hid_devices[i]
    IN  IF IsPolled(device)
        THEN Drain(device, device_instances[device.path],
                   IF device.path \in DOMAIN device_hid_to_axis_maps
                   THEN Some(device_hid_to_axis_maps[device.path]) ELSE None,
                   device_descriptors[device.path],
                   PrevOf(device.path), hid_queue[device.path], 0)
        ELSE [prev |-> PrevOf(device.path), queue |-> <<>>, events |-> <<>>,
              log |-> <<>>]

\* one call of poll; got is what get_state answers per slot
Poll(got) ==
    LET xres == [c \in Slots |->
                    XSlotPoll(c, xinput_prev_states[c], xinput_axis_states[c],
                              IF xinput THEN got[c] ELSE None)]
        hres == [i \in DOMAIN hid_devices |-> HidDevicePoll(i)]
        xevents == Concat([k \in 1 .. XSlotCount |-> xres[k - 1].events])
        withprev == {i \in DOMAIN hid_devices : hres[i].prev # None}
    IN  /\ xinput_prev_states' = [c \in Slots |-> xres[c].prev]
        /\ xinput_axis_states' = [c \in Slots |-> xres[c].entries]
        /\ prev_hid_reports' =
               [p \in {hid_devices[i].path : i \in withprev} |->
                   Unwrap(hres[IdxOfPath(hid_devices, p)].prev)]
        /\ hid_queue' =
               [p \in DOMAIN hid_queue |->
                   IF \E i \in DOMAIN hid_devices :
                          hid_devices[i].path = p /\ IsPolled(hid_devices[i])
                   THEN hres[IdxOfPath(hid_devices, p)].queue
                   ELSE hid_queue[p]]
        /\ detected_inputs' = xevents \o Concat([i \in DOMAIN hid_devices |-> hres[i].events])
        /\ poll_log' = Concat([i \in DOMAIN hid_devices |-> hres[i].log])
        /\ polled' = [c \in Slots |->
                         IF xinput /\ got[c] # None
                         THEN Some([state |-> Unwrap(got[c]),
                                    first |-> xinput_prev_states[c] = None])
                         ELSE None]
        /\ hist' = Observe(hist,
                           IF xinput /\ got[0] # None /\ xinput_prev_states[0] # None
                           THEN Some(XAxisValues(Unwrap(got[0]))[1]) ELSE None,
                           FiredOnTracked(xevents))
        /\ UNCHANGED <<env, xinput, hid_devices, device_descriptors,
                       device_instances, device_hid_to_axis_maps, opened_devices>>

PollAction ==
    /\ \E got \in PadChoices(env) : Poll(got)
    /\ UNCHANGED <<session, probe>>

\* the device sends a report, which waits in the OS queue of the open handle;
\* the result of the previous poll has been consumed by then
HidReportArrives ==
    \E i \in DOMAIN env.hid :
        \E r \in env.hid[i].reports :
            LET p == env.hid[i].item.path
            IN  /\ p \in DOMAIN hid_queue
                /\ Len(hid_queue[p]) < MaxQueue
                /\ hid_queue' = [hid_queue EXCEPT ![p] = Append(@, r)]
                /\ detected_inputs' = <<>>
                /\ poll_log' = <<>>
                /\ polled' = [c \in Slots |-> None]
                /\ hist' = [hist EXCEPT !.sample = None, !.fired = <<>>]
                /\ UNCHANGED <<env, xinput, xinput_prev_states, xinput_axis_states,
                               hid_devices, device_descriptors, device_instances,
                               device_hid_to_axis_maps, prev_hid_reports,
                               opened_devices, session, probe>>

\* no wait_for_input(s) call is modelled: poll is called by a bare loop
NoSession == [mode |-> "none"]
NoProbe == [fn |-> "none"]

InitVendor ==
    /\ \E e \in VendorScenarios : \E got0 \in PadChoices(e) : Init_new(e, got0)
    /\ session = NoSession
    /\ probe = NoProbe
InitHid ==
    /\ \E e \in HidScenarios : \E got0 \in PadChoices(e) : Init_new(e, got0)
    /\ session = NoSession
    /\ probe = NoProbe
Init ==
    /\ \E e \in BothScenarios : \E got0 \in PadChoices(e) : Init_new(e, got0)
    /\ session = NoSession
    /\ probe = NoProbe

NextVendor == PollAction
Next == PollAction \/ HidReportArrives

\* a session on a machine with XInput pads only
SpecVendor == InitVendor /\ [][NextVendor]_vars

\* the same, with a caller whose loop keeps calling poll
SpecVendorFair == InitVendor /\ [][NextVendor]_vars /\ WF_vars(PollAction)
\* a session on a machine with HID devices only
SpecHid == InitHid /\ [][Next]_vars
\* a session on a Windows machine with a pad seen by both backends
Spec == Init /\ [][Next]_vars

(* ------------------------------------------------------------------ *)
(* wait_for_inputs_with_events and wait_for_input                      *)
(*                                                                     *)
(* The clock counts ticks; a second is TicksPerSec ticks.  A poll takes *)
(* 0 or 1 tick, thread::sleep takes 1 or 2 ticks (it never returns      *)
(* early).  Past Horizon, which lies beyond every deadline a session    *)
(* can have, the clock value no longer matters and stays.               *)
(* ------------------------------------------------------------------ *)
\* ticks of the clock in one second
TicksPerSec == 2
\* the timeouts a caller passes are 0 .. MaxSecs seconds
MaxSecs == 1

Horizon == 2 * MaxSecs * TicksPerSec + 2

Timeouts == {secs * TicksPerSec : secs \in 0 .. MaxSecs}

SessionIds == {"s1", "s2"}

Tick(now, d) == Min2(Horizon, now + d)

\* the locals of a session right after InputDetector::new; t1 is
\* initial_timeout (timeout in wait_for_input), t2 is collect_duration
StartSession(mode, session_id, t1, t2, now0) ==
    [mode |-> mode, pc |-> "check", session_id |-> session_id,
     start |-> 0, now |-> now0,
     initial_timeout |-> t1, collect_duration |-> t2,
     first_input_time |-> None,
     completes |-> 0, complete_id |-> None, inputs |-> 0, polls |-> 0,
     late |-> FALSE, last |-> "none", ended_at |-> None, result |-> None]

\* window.emit("input-detection-complete", ..) and break
EmitComplete(s) ==
    [s EXCEPT !.completes = Min2(CountCap, @ + 1),
              !.complete_id = Some(s.session_id),
              !.last = "complete",
              !.ended_at = Some(s.now),
              !.pc = "done"]

\* EventsCheck whose initial-timeout branch emits but does not break
EventsCheckNoBreak(s) ==
    IF s.first_input_time # None
    THEN (IF s.now - Unwrap(s.first_input_time) >= s.collect_duration
          THEN EmitComplete(s)
          ELSE [s EXCEPT !.pc = "poll"])
    ELSE IF s.now - s.start >= s.initial_timeout
    THEN [EmitComplete(s) EXCEPT !.pc = "poll"]
    ELSE [s EXCEPT !.pc = "poll"]

\* "Check timeout conditions" at the top of the loop
EventsCheck(s) ==
    IF s.first_input_time # None
    THEN (IF s.now - Unwrap(s.first_input_time) >= s.collect_duration
          THEN EmitComplete(s)
          ELSE [s EXCEPT !.pc = "poll"])
    ELSE IF s.now - s.start >= s.initial_timeout
    THEN EmitComplete(s)
    ELSE [s EXCEPT !.pc = "poll"]

\* EventsPublish restarting the collection window at every event
EventsPublishRestart(s, inputs, t) ==
    [s EXCEPT !.now = t,
              !.polls = Min2(CountCap, @ + 1),
              !.inputs = Min2(CountCap, @ + Len(inputs)),
              !.last = IF inputs # <<>> THEN "input" ELSE @,
              !.late = @ \/ s.completes > 0,
              !.first_input_time = IF inputs # <<>> THEN Some(t) ELSE @,
              !.pc = "sleep"]

\* the rest of the loop body after detector.poll() returned inputs at time t:
\* every input is emitted, the first one stamps first_input_time
EventsPublish(s, inputs, t) ==
    [s EXCEPT !.now = t,
              !.polls = Min2(CountCap, @ + 1),
              !.inputs = Min2(CountCap, @ + Len(inputs)),
              !.last = IF inputs # <<>> THEN "input" ELSE @,
              !.late = @ \/ s.completes > 0,
              !.first_input_time = IF @ = None /\ inputs # <<>> THEN Some(t) ELSE @,
              !.pc = "sleep"]

\* SleepDone on a clock that stands still
SleepDoneFrozen(s, d) == [s EXCEPT !.pc = "check"]

\* thread::sleep(Duration::from_millis(5))
SleepDone(s, d) == [s EXCEPT !.now = Tick(s.now, d), !.pc = "check"]

\* while start.elapsed() < timeout, else Ok(None)
SingleCheck(s) ==
    IF s.now - s.start < s.initial_timeout
    THEN [s EXCEPT !.pc = "poll"]
    ELSE [s EXCEPT !.pc = "done", !.ended_at = Some(s.now), !.result = Some(None)]

\* SingleReturn answering the last input of the poll
SingleReturnLast(s, inputs, t) ==
    IF inputs # <<>>
    THEN [s EXCEPT !.now = t, !.polls = Min2(CountCap, @ + 1), !.pc = "done",
                   !.ended_at = Some(t), !.result = Some(Some(inputs[Len(inputs)]))]
    ELSE [s EXCEPT !.now = t, !.polls = Min2(CountCap, @ + 1), !.pc = "sleep"]

\* if let Some(input) = inputs.into_iter().next() { return Ok(Some(input)) }
SingleReturn(s, inputs, t) ==
    IF inputs # <<>>
    THEN [s EXCEPT !.now = t, !.polls = Min2(CountCap, @ + 1), !.pc = "done",
                   !.ended_at = Some(t), !.result = Some(Some(inputs[1]))]
    ELSE [s EXCEPT !.now = t, !.polls = Min2(CountCap, @ + 1), !.pc = "sleep"]

LoopCheck ==
    /\ session.mode \in {"events", "single"}
    /\ session.pc = "check"
    /\ session' = IF session.mode = "events" THEN EventsCheck(session)
                  ELSE SingleCheck(session)
    /\ UNCHANGED <<env, xinput, xinput_prev_states, xinput_axis_states,
                   hid_devices, device_descriptors, device_instances,
                   device_hid_to_axis_maps, prev_hid_reports, opened_devices,
                   hid_queue, detected_inputs, polled, poll_log, hist, probe>>

LoopPoll ==
    /\ session.mode \in {"events", "single"}
    /\ session.pc = "poll"
    /\ \E got \in PadChoices(env) : Poll(got)
    /\ \E d \in 0 .. 1 :
           session' = IF session.mode = "events"
                      THEN EventsPublish(session, detected_inputs', Tick(session.now, d))
                      ELSE SingleReturn(session, detected_inputs', Tick(session.now, d))
    /\ UNCHANGED probe

LoopSleep ==
    /\ session.mode \in {"events", "single"}
    /\ session.pc = "sleep"
    /\ \E d \in 1 .. 2 : session' = SleepDone(session, d)
    /\ UNCHANGED <<env, xinput, xinput_prev_states, xinput_axis_states,
                   hid_devices, device_descriptors, device_instances,
                   device_hid_to_axis_maps, prev_hid_reports, opened_devices,
                   hid_queue, detected_inputs, polled, poll_log, hist, probe>>

OneButton(path, product_id) ==
    EnvDevice(Item(path, 1103, product_id, Name(<<"T","1","6","0","0","0">>)),
              Descriptor(ButtonFields(1)),
              { RawReport(ButtonValues(1, b), <<>>) : b \in {{}, {1}} })

\* two XInput pads and one HID joystick
PadsEnv ==
    [hid_api |-> TRUE, xinput_loaded |-> TRUE, windows |-> TRUE,
     pads |-> [c \in Slots |->
                 IF c = 0 THEN {Some(Pad(0, 0, 0)), Some(Pad(4096, 32767, 0))}
                 ELSE IF c = 1 THEN {Some(Pad(0, 0, 0)), Some(Pad(4096, 0, 0))}
                 ELSE {None}],
     hid |-> << OneButton("hid1", 1) >>]

\* two HID joysticks
TwoHidEnv ==
    [hid_api |-> TRUE, xinput_loaded |-> FALSE, windows |-> FALSE, pads |-> NoPads,
     hid |-> << OneButton("hid1", 1), OneButton("hid2", 2) >>]

\* one XInput pad, and one HID joystick that keeps sending the same report
FlowEnv ==
    [hid_api |-> TRUE, xinput_loaded |-> TRUE, windows |-> TRUE,
     pads |-> [c \in Slots |->
                 IF c = 0 THEN {Some(Pad(0, 0, 0)), Some(Pad(4096, 0, 0))} ELSE {None}],
     hid |-> << EnvDevice(Item("hid1", 1103, 1, Name(<<"T","1","6","0","0","0">>)),
                          Descriptor(ButtonFields(1)),
                          { RawReport(ButtonValues(1, {1}), <<>>) }) >>]

\* the machines wait_for_inputs_with_events and wait_for_input are called on
EventsScenarios == {PadsEnv}
SingleScenarios == {PadsEnv, TwoHidEnv}

InitEvents(scenarios, ids) ==
    /\ \E e \in scenarios : \E got0 \in PadChoices(e) : Init_new(e, got0)
    /\ \E id \in ids, t1 \in Timeouts, t2 \in Timeouts :
           session = StartSession("events", id, t1, t2, 0)
    /\ probe = NoProbe

\* wait_for_input takes start before InputDetector::new, which takes 0 or 1 tick
InitSingle(scenarios) ==
    /\ \E e \in scenarios : \E got0 \in PadChoices(e) : Init_new(e, got0)
    /\ \E t1 \in Timeouts, now0 \in 0 .. 1 :
           session = StartSession("single", "s1", t1, 0, now0)
    /\ probe = NoProbe

InitSession == InitEvents(EventsScenarios, SessionIds) \/ InitSingle(SingleScenarios)

InitFlow == InitEvents({FlowEnv}, {"s1"}) \/ InitSingle({FlowEnv})

SessionStep == LoopCheck \/ LoopPoll \/ LoopSleep

NextSession == SessionStep \/ HidReportArrives

\* one wait_for_inputs_with_events or wait_for_input call
SpecSession == InitSession /\ [][NextSession]_vars

\* detector.poll() returns: every read it makes is non-blocking (XInputGetState,
\* read_timeout with timeout 0) and a device's drain stops after ReadCap reports.
\* LoopPoll is enabled exactly when session.pc = "poll", so this is weak
\* fairness of LoopPoll
PollReturns == []<>(session.pc # "poll")

\* a call on a machine whose HID joystick may send a report at any time, with
\* the loop's thread running whenever it can
SpecSessionFair ==
    /\ InitFlow
    /\ [][NextSession]_vars
    /\ WF_vars(LoopCheck)
    /\ WF_vars(LoopSleep)
    /\ PollReturns

(* ------------------------------------------------------------------ *)
(* is_gamepad and parse_hid_full_report called on their own            *)
(* ------------------------------------------------------------------ *)
\* pieces product strings are made of: indicators of both lists in mixed
\* case, the halves of one ("x5", "6 Rhino"), and text that is in no list
NameParts ==
    { <<>>,
      <<"X","5","2"," ">>,
      <<"G","a","m","e","p","a","d">>,
      <<"X","B","O","X">>,
      <<"G","e","n","e","r","i","c"," ","U","S","B">>,
      <<" ">>,
      <<"x","5">>,
      <<"6"," ","R","h","i","n","o">>,
      <<"C","o","n","t","r","o","l","l","e","r"," ","f","o","r"," ","W","i","n","d","o","w","s">> }

ProbeNames == {a \o b \o c : a \in NameParts, b \in NameParts, c \in NameParts}

MaxRange == 33
MaxK == 16

\* declared widths (var.bits) of axis fields
Widths == {1, 2, 4, 8, 10, 12, 16, 24}

\* a field of w bits can hold the logical range, unsigned or signed
Fits(lmin, lmax, w) ==
    \/ lmin >= 0 /\ lmax <= 2^w - 1
    \/ lmin >= -(2^(w - 1)) /\ lmax <= 2^(w - 1) - 1

\* logical ranges of axis fields: every small one (also empty and reversed
\* ones), and around each power of two up to 2^MaxK
ProbeRanges ==
    {<<lmin, lmin + r>> : lmin \in {-1, 0, 3}, r \in -2 .. MaxRange}
    \cup {<<0, 2^k - 1>> : k \in 1 .. MaxK}
    \cup {<<0, 2^k>> : k \in 1 .. MaxK}
    \cup {<<-(2^(k - 1)), 2^(k - 1) - 1>> : k \in 1 .. MaxK}

ProbeField(r, w) == VarField(1, 48, r[1], r[2], w)

CallIsGamepad ==
    /\ probe = NoProbe
    /\ \E name \in ProbeNames :
           probe' = [fn |-> "is_gamepad", name |-> name, result |-> is_gamepad(name)]
    /\ UNCHANGED <<env, xinput, xinput_prev_states, xinput_axis_states, hid_devices,
                   device_descriptors, device_instances, device_hid_to_axis_maps,
                   prev_hid_reports, opened_devices, hid_queue, detected_inputs,
                   polled, poll_log, hist, session>>

\* a report of a descriptor whose one input report has one axis field
CallParse ==
    /\ probe = NoProbe
    /\ \E r \in ProbeRanges : \E w \in Widths :
           /\ r[1] > r[2] \/ Fits(r[1], r[2], w)
           /\ probe' = [fn |-> "parse_hid_full_report",
                        field |-> ProbeField(r, w),
                        result |-> parse_hid_full_report(
                                       RawReport(<<Some(Max2(r[1], r[2]))>>, <<48>>),
                                       Descriptor(<<ProbeField(r, w)>>))]
    /\ UNCHANGED <<env, xinput, xinput_prev_states, xinput_axis_states, hid_devices,
                   device_descriptors, device_instances, device_hid_to_axis_maps,
                   prev_hid_reports, opened_devices, hid_queue, detected_inputs,
                   polled, poll_log, hist, session>>

InitPure ==
    /\ \E got0 \in PadChoices(FlowEnv) : Init_new(FlowEnv, got0)
    /\ session = NoSession
    /\ probe = NoProbe

NextPure == CallIsGamepad \/ CallParse

\* one call of one of the two functions, on an input of any kind
SpecPure == InitPure /\ [][NextPure]_vars

(* ------------------------------------------------------------------ *)
(* A machine with a device that does not open and one whose reads fail *)
(* ------------------------------------------------------------------ *)
\* what a read that returns Err leaves in the model's queue
ReadFailure == [read_ok |-> FALSE, matches |-> 0, values |-> <<>>, hash_order |-> <<>>]

\* an XInput pad in slot 1 and three HID joysticks: the first cannot be
\* opened, reads of the second can fail, the third works
FaultyEnv ==
    [hid_api |-> TRUE, xinput_loaded |-> TRUE, windows |-> TRUE,
     pads |-> [c \in Slots |->
                 IF c = 1 THEN {None, Some(Pad(0, 0, 0)), Some(Pad(4096, 0, 0))}
                 ELSE {None}],
     hid |-> << [OneButton("hid1", 1) EXCEPT !.open_ok = FALSE],
                [OneButton("hid2", 2) EXCEPT !.reports = @ \cup {ReadFailure}],
                OneButton("hid3", 3) >>]

InitFaulty ==
    /\ \E got0 \in PadChoices(FaultyEnv) : Init_new(FaultyEnv, got0)
    /\ session = NoSession
    /\ probe = NoProbe

\* a bare poll loop on that machine
SpecFaulty == InitFaulty /\ [][Next]_vars

(* ------------------------------------------------------------------ *)
(* A machine whose HID API may fail to initialise                      *)
(* ------------------------------------------------------------------ *)
\* a pad that may sit in XInput slot 0 and the HID joystick of FlowEnv; api tells
\* whether HidApi::new() succeeds on this machine
StartEnv(api) ==
    [hid_api |-> api, xinput_loaded |-> TRUE, windows |-> TRUE,
     pads |-> [c \in Slots |->
                 IF c = 0 THEN {None, Some(Pad(0, 0, 0)), Some(Pad(4096, 0, 0))}
                 ELSE {None}],
     hid |-> FlowEnv.hid]

StartScenarios == {StartEnv(TRUE), StartEnv(FALSE)}

CallDetectJoysticks ==
    /\ probe = NoProbe
    /\ \E got \in PadChoices(env) :
           probe' = [fn |-> "detect_joysticks", got |-> got,
                     result |-> detect_joysticks(env, got)]
    /\ UNCHANGED <<env, xinput, xinput_prev_states, xinput_axis_states, hid_devices,
                   device_descriptors, device_instances, device_hid_to_axis_maps,
                   prev_hid_reports, opened_devices, hid_queue, detected_inputs,
                   polled, poll_log, hist, session>>

CallListConnected ==
    /\ probe = NoProbe
    /\ \E got \in PadChoices(env) :
           probe' = [fn |-> "list_connected_devices", got |-> got,
                     result |-> list_connected_devices(env, got)]
    /\ UNCHANGED <<env, xinput, xinput_prev_states, xinput_axis_states, hid_devices,
                   device_descriptors, device_instances, device_hid_to_axis_maps,
                   prev_hid_reports, opened_devices, hid_queue, detected_inputs,
                   polled, poll_log, hist, session>>

InitStart == InitEvents(StartScenarios, {"s1"}) \/ InitSingle(StartScenarios)

NextStart == NextSession \/ CallDetectJoysticks \/ CallListConnected

\* a session on that machine, and the two device queries called beside it
SpecStart == InitStart /\ [][NextStart]_vars

(* ------------------------------------------------------------------ *)
(* detect_axis_movement_for_device                                     *)
(* Time is counted in sleeps of the loop (5 ms each, or longer).       *)
(* A value is a fraction [num, den].                                   *)
(* ------------------------------------------------------------------ *)
\* the probe's clock is followed up to MaxProbeTicks sleeps
MaxProbeTicks == 3
ProbeTimeouts == 0 .. 2

\* 0.15 and 0.05, in hundredths
ProbeValueHundredths == 15
ProbeChangeHundredths == 5

\* delta > 0.15 && value.abs() > 0.15, values as numerators over Unit
XProbeHit(value, initial_value) ==
    /\ 100 * Abs(value - initial_value) > ProbeValueHundredths * Unit
    /\ 100 * Abs(value) > ProbeValueHundredths * Unit

RECURSIVE XProbeScan(_, _, _)
\* for (axis_id, value, initial_value) in axes { if .. { return } }, from axis a:
\* None when the loop falls through
XProbeScan(values, initial_values, a) ==
    IF a > 6 THEN None
    ELSE IF XProbeHit(values[a], initial_values[a])
    THEN Some([axis_id |-> a, value |-> [num |-> values[a], den |-> Unit]])
    ELSE XProbeScan(values, initial_values, a + 1)

\* change_percent >= 0.05 and normalized.abs() > 0.15 for one axis of the
\* current report; a missing initial value counts as 0
HidProbeHit(initial_report, current_report, axis_id) ==
    LET current_value == current_report.axis_values[axis_id]
        initial_value == IF axis_id \in DOMAIN initial_report.axis_values
                         THEN initial_report.axis_values[axis_id] ELSE 0
        logical_min == current_report.axis_ranges[axis_id][1]
        logical_max == current_report.axis_ranges[axis_id][2]
        range == logical_max - logical_min
        change_abs == Abs(current_value - initial_value)
    IN  /\ range > 0
        /\ 100 * change_abs >= ProbeChangeHundredths * range
        /\ 100 * Abs(2 * (current_value - logical_min) - range)
               > ProbeValueHundredths * range

\* ((current_value - logical_min) / range * 2.0) - 1.0
HidProbeValue(current_report, axis_id) ==
    LET logical_min == current_report.axis_ranges[axis_id][1]
        range == current_report.axis_ranges[axis_id][2] - logical_min
    IN  [num |-> 2 * (current_report.axis_values[axis_id] - logical_min) - range,
         den |-> range]

RECURSIVE HidProbeScan(_, _, _, _)
\* for (&axis_id, &current_value) in &current_report.axis_values { .. }: the
\* results the scan can return, {None} when it falls through.  order is the
\* iteration order of the HashMap; di_to_hid is the mapping or None for Err,
\* and it is iterated in arbitrary order too.
HidProbeScan(initial_report, current_report, di_to_hid, order) ==
    IF order = <<>> THEN {None}
    ELSE LET axis_id == Head(order)
             found == IF di_to_hid = None
                         \/ axis_id \notin DOMAIN current_report.axis_values
                         \/ ~HidProbeHit(initial_report, current_report, axis_id)
                      THEN {}
                      ELSE {axis_index \in DOMAIN Unwrap(di_to_hid) :
                               Unwrap(di_to_hid)[axis_index] = axis_id}
         IN  IF found # {}
             THEN {Some([axis_id |-> axis_index,
                         value |-> HidProbeValue(current_report, axis_id)]) :
                      axis_index \in found}
             ELSE HidProbeScan(initial_report, current_report, di_to_hid, Tail(order))

\* a read that timed out (no bytes) or failed
NoRead == [read_ok |-> FALSE, matches |-> 0, values |-> <<>>, hash_order |-> <<>>]

ProbeErr == [fn |-> "detect_axis_movement_for_device", pc |-> "done", outcome |-> "err"]

ProbeRunning(kind, target, timeout, initial) ==
    [fn |-> "detect_axis_movement_for_device", kind |-> kind, target |-> target,
     pc |-> "check", outcome |-> "running", timeout |-> timeout, elapsed |-> 0,
     initial |-> initial, seen |-> <<>>, found |-> None]

ProbeFrame == UNCHANGED <<env, xinput, xinput_prev_states, xinput_axis_states,
                          hid_devices, device_descriptors, device_instances,
                          device_hid_to_axis_maps, prev_hid_reports, opened_devices,
                          hid_queue, detected_inputs, polled, poll_log, hist, session>>

\* the call with target_uuid "xinput_{controller_id}", up to the loop
ProbeStartXInput ==
    /\ probe = NoProbe
    /\ \E controller_id \in Slots, timeout \in ProbeTimeouts :
           \E got \in (IF env.xinput_loaded THEN env.pads[controller_id] ELSE {None}) :
               probe' = IF got = None THEN ProbeErr
                        ELSE ProbeRunning("xinput", controller_id, timeout, Unwrap(got))
    /\ ProbeFrame

\* the call with the uuid of the i-th enumerated HID device, up to the loop:
\* find, get_hid_descriptor_bytes, the initial read_hid_report and its parse
ProbeStartHid ==
    /\ probe = NoProbe
    /\ \E timeout \in ProbeTimeouts :
           IF EnumeratedHid(env) = <<>> THEN probe' = ProbeErr
           ELSE \E i \in DOMAIN EnumeratedHid(env) :
                    LET target_uuid == HidUuidText(EnumeratedHid(env)[i].item)
                        device == EnumeratedHid(env)[
                            CHOOSE j \in DOMAIN EnumeratedHid(env) :
                                /\ HidUuidText(EnumeratedHid(env)[j].item) = target_uuid
                                /\ \A k \in 1 .. (j - 1) :
                                       HidUuidText(EnumeratedHid(env)[k].item) # target_uuid]
                    IN  \E initial_bytes \in device.reports \cup {NoRead} :
                            LET initial_report ==
                                    parse_hid_full_report(initial_bytes, device.descriptor)
                            IN  probe' =
                                    IF ~(device.open_ok /\ device.descriptor_ok)
                                       \/ ~initial_bytes.read_ok
                                       \/ initial_report = None
                                    THEN ProbeErr
                                    ELSE ProbeRunning("hid", device, timeout,
                                                      Unwrap(initial_report))
    /\ ProbeFrame

\* while start.elapsed() < timeout { .. } return Ok(None)
ProbeCheck ==
    /\ probe.fn = "detect_axis_movement_for_device"
    /\ probe.pc = "check"
    /\ probe' = IF probe.elapsed < probe.timeout
                THEN [probe EXCEPT !.pc = "read"]
                ELSE [probe EXCEPT !.pc = "done", !.outcome = "none"]
    /\ ProbeFrame

\* the body of the XInput loop up to the sleep
ProbeReadXInput ==
    /\ probe.fn = "detect_axis_movement_for_device"
    /\ probe.pc = "read"
    /\ probe.kind = "xinput"
    /\ \E got \in env.pads[probe.target] :
           LET hit == IF got = None THEN None
                      ELSE XProbeScan(XAxisValues(Unwrap(got)),
                                      XAxisValues(probe.initial), 1)
           IN  probe' = IF hit = None
                        THEN [probe EXCEPT !.pc = "sleep", !.seen = Append(@, got)]
                        ELSE [probe EXCEPT !.pc = "done", !.outcome = "some",
                                           !.found = hit, !.seen = Append(@, got)]
    /\ ProbeFrame

\* the body of the HID loop up to the sleep
ProbeReadHid ==
    /\ probe.fn = "detect_axis_movement_for_device"
    /\ probe.pc = "read"
    /\ probe.kind = "hid"
    /\ \E report_bytes \in probe.target.reports \cup {NoRead} :
           LET device == probe.target
               parsed == IF report_bytes.read_ok
                         THEN parse_hid_full_report(report_bytes, device.descriptor)
                         ELSE None
               di_to_hid == IF device.mapping_ok
                            THEN get_directinput_to_hid_axis_mapping(device.descriptor)
                            ELSE None
           IN  \E hit \in (IF parsed = None THEN {None}
                           ELSE HidProbeScan(probe.initial, Unwrap(parsed), di_to_hid,
                                             report_bytes.hash_order)) :
                   probe' = IF hit = None
                            THEN [probe EXCEPT !.pc = "sleep", !.seen = Append(@, parsed)]
                            ELSE [probe EXCEPT !.pc = "done", !.outcome = "some",
                                               !.found = hit,
                                               !.seen = Append(@, parsed)]
    /\ ProbeFrame

\* thread::sleep(Duration::from_millis(5)): at least one tick
ProbeSleep ==
    /\ probe.fn = "detect_axis_movement_for_device"
    /\ probe.pc = "sleep"
    /\ \E d \in 1 .. 2 :
           probe' = [probe EXCEPT !.pc = "check",
                                  !.elapsed = Min2(MaxProbeTicks, @ + d)]
    /\ ProbeFrame

\* the pad of slot 0 as the probe sees it: sticks and triggers
ProbePads ==
    {None, Some(Pad(0, 0, 0)), Some(Pad(0, 4000, 0)), Some(Pad(0, 6000, 0)),
     Some(Pad(0, 0, 255)), Some(Pad(0, 32767, 255))}

\* a HOTAS with two input reports: stick X and Y in the first, the throttle
\* (Z, 0x32) in the second
TwoReportDescriptor ==
    [ok |-> TRUE,
     input_reports |-> << XYFields(<<0, 1023>>), << VarField(1, 50, 0, 1023, 16) >> >>]

StickReport(x) ==
    [read_ok |-> TRUE, matches |-> 1, values |-> <<Some(x), Some(512)>>,
     hash_order |-> <<48, 49>>]
ThrottleReport(z) ==
    [read_ok |-> TRUE, matches |-> 2, values |-> <<Some(z)>>, hash_order |-> <<50>>]

ProbeEnv ==
    [hid_api |-> TRUE, xinput_loaded |-> TRUE, windows |-> FALSE,
     pads |-> [c \in Slots |-> IF c = 0 THEN ProbePads ELSE {None}],
     hid |-> << EnvDevice(
         Item("hid1", 1103, 1026, Name(<<"H","O","T","A","S">>)),
         TwoReportDescriptor,
         {StickReport(x) : x \in {512, 540, 600, 1023}}
         \cup {ThrottleReport(z) : z \in {512, 1023}}
         \cup {BadReport}) >>]

InitProbe ==
    /\ \E got0 \in PadChoices(ProbeEnv) : Init_new(ProbeEnv, got0)
    /\ session = NoSession
    /\ probe = NoProbe

NextProbe ==
    \/ ProbeStartXInput
    \/ ProbeStartHid
    \/ ProbeCheck
    \/ ProbeReadXInput
    \/ ProbeReadHid
    \/ ProbeSleep

\* one call of detect_axis_movement_for_device per behaviour
SpecProbe == InitProbe /\ [][NextProbe]_vars

(* ------------------------------------------------------------------ *)
(* Properties of the XInput axis detector (checked under SpecVendor)   *)
(* ------------------------------------------------------------------ *)
LastOf(seq) == seq[Len(seq)]

\* C1 as stated: after an event of one direction, no event of the other
\* direction fires before the axis has re-centred, so all events fired since
\* the last dead-zone sample have the direction of the first.
C1_OnlyFirstDirection == \A i \in DOMAIN hist.run : hist.run[i] = hist.run[1]

C1_Step ==
    /\ \A i \in 1 .. (Len(hist'.run) - 1) : hist'.run[i] # hist'.run[i + 1]
    /\ (hist.run # <<>> /\ hist'.sample # None) =>
           LET last == LastOf(hist.run)
               v == Unwrap(hist'.sample)
           IN  /\ (last = "positive" /\ ObsBelow(v)) => hist'.fired = <<"negative">>
               /\ (last = "negative" /\ ObsAbove(v)) => hist'.fired = <<"positive">>
               /\ (last = "positive" /\ ~ObsBelow(v)) => hist'.fired = <<>>
               /\ (last = "negative" /\ ~ObsAbove(v)) => hist'.fired = <<>>

\* C1 (amended): once an event of one direction has fired and no sample has
\* been in the dead zone since, the first sample beyond the opposite threshold
\* fires the opposite event; only a repeat of the direction fired last is
\* held back until the axis re-centres, so the events fired between two
\* dead-zone samples alternate in direction.
C1_OppositeFiresSameHeld == [][C1_Step]_vars

\* C1 witness: a positive event, then a negative one with no dead-zone sample between
C1_Witness == hist.run = <<"positive", "negative">>

Bit(b) == IF b THEN 1 ELSE 0

\* C2 as stated: when the samples have started in the dead zone, risen above
\* +0.5, returned to the dead zone and risen above +0.5 again, exactly two
\* positive events and no negative event have fired.
C2_ExactlyTwo == hist.phase = "up2" => (hist.pos = 2 /\ hist.neg = 0)

\* C2 (amended): along such a sequence no negative event fires and each of
\* the two rises fires exactly one positive event if it has a sample more than
\* 0.3 above the last dead-zone sample before it, and none otherwise: at
\* most two positive events, two when both rises are that large.
C2_OnePerLargeRise ==
    hist.phase # "idle" =>
        /\ hist.neg = 0
        /\ hist.pos = Bit(hist.strong1) + Bit(hist.strong2)
        /\ (hist.phase \in {"start"} => ~hist.strong1)
        /\ (hist.phase \in {"start", "up1", "mid"} => ~hist.strong2)

\* C2 witness: the second rise has fired the second positive event
C2_Witness == hist.phase = "up2" /\ hist.pos = 2 /\ hist.neg = 0 /\ hist.fired = <<"positive">>

(* ------------------------------------------------------------------ *)
(* Properties of the HID part of poll (checked under SpecHid)          *)
(* ------------------------------------------------------------------ *)
Pressed(report) == Range(report.pressed_buttons)

KindOf(event) == event.input_string[3]

EventsOfKind(events, kind) == SelectSeq(events, LAMBDA ev : KindOf(ev) = kind)

DeviceOfPath(path) == hid_devices[IdxOfPath(hid_devices, path)]

\* The report decoded last before entry k of a poll's log for the same device:
\* an earlier entry of this poll, else the snapshot the poll started with.
PrecedingDecoded(log, k, before) ==
    LET earlier == {j \in 1 .. (k - 1) :
                       log[j].path = log[k].path /\ log[j].current # None}
    IN  IF earlier # {}
        THEN log[CHOOSE j \in earlier : \A i \in earlier : i <= j].current
        ELSE IF log[k].path \in DOMAIN before THEN Some(before[log[k].path])
        ELSE None

\* the non-hat axes of a report that moved by the change threshold or more
MovedAxes(before, current) ==
    {id \in DOMAIN current.axis_values \ {HatUsage} :
        /\ current.axis_ranges[id][2] - current.axis_ranges[id][1] > 0
        /\ Abs(current.axis_values[id]
               - (IF id \in DOMAIN before.axis_values
                  THEN before.axis_values[id] ELSE 0)) >= AXIS_CHANGE_THRESHOLD}

\* generic-desktop X (0x30) is axis 1, Y (0x31) axis 2
UsageOfAxis(n) == n + 47

SideOf(current, id) ==
    IF 2 * (current.axis_values[id] - current.axis_ranges[id][1])
           > current.axis_ranges[id][2] - current.axis_ranges[id][1]
    THEN "positive" ELSE "negative"

\* normalized > 0.5 or normalized < -0.5
BeyondTrigger(current, id) ==
    LET off == current.axis_values[id] - current.axis_ranges[id][1]
        range == current.axis_ranges[id][2] - current.axis_ranges[id][1]
    IN  4 * off > 3 * range \/ 4 * off < range

C3_Step ==
    \A k \in DOMAIN poll_log' :
        LET entry == poll_log'[k]
            before == PrecedingDecoded(poll_log', k, prev_hid_reports)
        IN  (entry.current # None /\ before # None) =>
                LET current == Unwrap(entry.current)
                    moved == MovedAxes(Unwrap(before), current)
                    axis_events == EventsOfKind(entry.events, "axis")
                IN  /\ Len(axis_events) = Cardinality(moved)
                    /\ {axis_events[i].input_string : i \in DOMAIN axis_events}
                         = {<<"js", entry.instance, "axis", id - 47, SideOf(current, id)>> :
                               id \in moved}

C4_Step ==
    \A k \in DOMAIN poll_log' :
        LET entry == poll_log'[k]
            before == PrecedingDecoded(poll_log', k, prev_hid_reports)
        IN  (entry.current # None /\ before # None) =>
                LET newly == Pressed(Unwrap(entry.current)) \ Pressed(Unwrap(before))
                    button_events == EventsOfKind(entry.events, "button")
                IN  /\ \A i \in DOMAIN button_events :
                           /\ button_events[i].input_string[4] \in newly
                           /\ button_events[i].input_string[1] = "js"
                           /\ button_events[i].input_string[2] = entry.instance
                    /\ (newly = {} => button_events = <<>>)
                    /\ (Pressed(Unwrap(before)) = {3}
                          /\ Pressed(Unwrap(entry.current)) = {3, 7})
                         => /\ Len(button_events) = 1
                            /\ button_events[1].input_string[4] = 7

\* C4: for a device with a previous snapshot, every button event of a report
\* names a button pressed in the report and not pressed in the preceding
\* decoded report of the device; a report that presses nothing new emits no
\* button event, and {3} -> {3,7} emits exactly one, for button 7.
C4_OnlyNewlyPressed == [][C4_Step]_vars

\* C4 witness: {3} -> {3,7} reported button 7, then {3,7} -> {3} reported nothing
C4_Witness ==
    \E k \in DOMAIN poll_log :
        /\ k + 1 \in DOMAIN poll_log
        /\ poll_log[k].prev # None
        /\ Pressed(Unwrap(poll_log[k].prev)) = {3}
        /\ poll_log[k].current # None
        /\ Pressed(Unwrap(poll_log[k].current)) = {3, 7}
        /\ Len(poll_log[k].events) = 1
        /\ poll_log[k].events[1].input_string = <<"js", 1, "button", 7>>
        /\ poll_log[k + 1].current # None
        /\ Pressed(Unwrap(poll_log[k + 1].current)) = {3}
        /\ poll_log[k + 1].events = <<>>

ButtonEventsOf(events, uuid) ==
    SelectSeq(events, LAMBDA ev : KindOf(ev) = "button" /\ ev.device_uuid = uuid
                                  /\ ev.input_string[1] = "js")

\* C6 as stated: the result of one poll holds at most one button event per
\* HID device.
C6_OnePerPoll ==
    \A i \in DOMAIN hid_devices :
        Len(ButtonEventsOf(detected_inputs, HidUuid(hid_devices[i]))) <= 1

\* C6 (amended): poll emits at most one button event per decoded report, so
\* the button events of one HID device in one poll are at most as many as the
\* reports of the device decoded in that poll; a poll that drains several
\* queued reports can emit several.
C6_OnePerReport ==
    /\ \A k \in DOMAIN poll_log :
           Len(EventsOfKind(poll_log[k].events, "button")) <= 1
    /\ \A i \in DOMAIN hid_devices :
           Len(ButtonEventsOf(detected_inputs, HidUuid(hid_devices[i])))
             <= Cardinality({k \in DOMAIN poll_log :
                                /\ poll_log[k].path = hid_devices[i].path
                                /\ poll_log[k].current # None
                                /\ poll_log[k].prev # None})

\* C6 witness: one poll, one device, two button events
C6_Witness ==
    \E i \in DOMAIN hid_devices :
        Len(ButtonEventsOf(detected_inputs, HidUuid(hid_devices[i]))) = 2

HatValue(report) == report.axis_values[HatUsage]

\* C7: a report that takes the hat switch from centred (8 or 15) to v in 0..7
\* emits exactly one event js{instance}_hat1_{d}, d = up for 0 and 1, right
\* for 2 and 3, down for 4 and 5, left for 6 and 7; a hat value outside 0..7
\* emits no hat event; the hat never produces an axis event.
C7_HatEdge ==
    \A k \in DOMAIN poll_log :
        LET entry == poll_log[k]
        IN  (/\ entry.prev # None
             /\ entry.current # None
             /\ HatUsage \in DOMAIN Unwrap(entry.current).axis_values
             /\ HatUsage \in DOMAIN Unwrap(entry.prev).axis_values) =>
                LET v == HatValue(Unwrap(entry.current))
                    hat_events == EventsOfKind(entry.events, "hat")
                    d == IF v \in {0, 1} THEN "up"
                         ELSE IF v \in {2, 3} THEN "right"
                         ELSE IF v \in {4, 5} THEN "down" ELSE "left"
                IN  /\ (HatValue(Unwrap(entry.prev)) \in {8, 15} /\ v \in 0 .. 7)
                         => /\ Len(hat_events) = 1
                            /\ hat_events[1].input_string
                                 = <<"js", entry.instance, "hat", 1, d>>
                    /\ (v \notin 0 .. 7 => hat_events = <<>>)
                    /\ Len(EventsOfKind(entry.events, "axis"))
                         <= Cardinality(DOMAIN Unwrap(entry.current).axis_values
                                        \ {HatUsage})

\* C8: one HID joystick declaring X then Y; after a report with X at
\* mid-range, a report with X at its logical maximum and Y unchanged yields
\* exactly one event, js1_axis1_positive, whatever the positive range of X.
C8_XToMaximum ==
    \A k \in DOMAIN poll_log :
        LET entry == poll_log[k]
        IN  (/\ Len(hid_devices) = 1
             /\ entry.prev # None
             /\ entry.current # None
             /\ DOMAIN Unwrap(entry.current).axis_values = {48, 49}
             /\ DOMAIN Unwrap(entry.prev).axis_values = {48, 49}
             /\ Pressed(Unwrap(entry.current)) = Pressed(Unwrap(entry.prev))) =>
                LET current == Unwrap(entry.current)
                    r == current.axis_ranges[48]
                IN  (/\ r[2] > r[1]
                     /\ Unwrap(entry.prev).axis_values[48] = Mid(r)
                     /\ current.axis_values[48] = r[2]
                     /\ current.axis_values[49]
                          = Unwrap(entry.prev).axis_values[49])
                    => /\ Len(entry.events) = 1
                       /\ entry.events[1].input_string
                            = <<"js", 1, "axis", 1, "positive">>

\* C9: the prefix of an identifier agrees with the classification of its
\* device: an event of a device is_gamepad classifies as gamepad carries gp,
\* a js identifier belongs to a device classified as joystick, and a hat
\* identifier carries js.
C9_PrefixMatchesClass ==
    \A k \in DOMAIN poll_log :
        \A i \in DOMAIN poll_log[k].events :
            LET ev == poll_log[k].events[i]
                gamepad == is_gamepad(FullName(DeviceOfPath(poll_log[k].path)))
            IN  /\ gamepad => ev.input_string[1] = "gp"
                /\ ev.input_string[1] = "js" => ~gamepad
                /\ KindOf(ev) = "hat" => ev.input_string[1] = "js"

(* ------------------------------------------------------------------ *)
(* Properties of a session with both backends (checked under Spec)     *)
(* ------------------------------------------------------------------ *)
SlotEvents(events, c) ==
    SelectSeq(events, LAMBDA ev : ev.input_string[1] = "gp" /\ ev.input_string[2] = c + 1)

LastDecoded(log, path) ==
    LET decoded == {j \in DOMAIN log : log[j].path = path /\ log[j].current # None}
    IN  IF decoded = {} THEN None
        ELSE log[CHOOSE j \in decoded : \A i \in decoded : i <= j].current

C5_Step ==
    /\ \A k \in DOMAIN poll_log' :
           LET entry == poll_log'[k]
           IN  (/\ entry.current # None
                /\ PrecedingDecoded(poll_log', k, prev_hid_reports) = None)
               => entry.events = <<>>
    /\ \A i \in DOMAIN hid_devices :
           LET path == hid_devices[i].path
               last == LastDecoded(poll_log', path)
           IN  (path \notin DOMAIN prev_hid_reports /\ last # None) =>
                   /\ path \in DOMAIN prev_hid_reports'
                   /\ prev_hid_reports'[path] = Unwrap(last)
                   /\ device_instances' = device_instances
                   /\ device_hid_to_axis_maps' = device_hid_to_axis_maps
    /\ \A c \in Slots :
           (xinput_prev_states[c] = None /\ polled'[c] # None) =>
               /\ SlotEvents(detected_inputs', c) = <<>>
               /\ xinput_prev_states'[c] = Some(Unwrap(polled'[c]).state)
               /\ xinput_axis_states'[c] = xinput_axis_states[c]

\* C5: the first decoded report of a HID device in a session emits no event,
\* whatever it holds, and only becomes the previous snapshot of the device;
\* the first state read from an XInput slot emits no event and only becomes
\* the previous state of the slot.
C5_FirstIsBaseline == [][C5_Step]_vars

\* C5 witness: one poll took the first report of the HID device (button 1
\* down, X at its maximum) and the first state of slot 0 (A down, stick at
\* its maximum) and returned no event
C5_Witness ==
    /\ \E k \in DOMAIN poll_log :
           /\ poll_log[k].prev = None
           /\ poll_log[k].current # None
           /\ 1 \in Pressed(Unwrap(poll_log[k].current))
           /\ Unwrap(poll_log[k].current).axis_values[48] = 1023
           /\ poll_log[k].events = <<>>
           /\ prev_hid_reports[poll_log[k].path] = Unwrap(poll_log[k].current)
    /\ polled[0] # None
    /\ Unwrap(polled[0]).first
    /\ Unwrap(polled[0]).state.wButtons # 0
    /\ xinput_prev_states[0] = Some(Unwrap(polled[0]).state)
    /\ detected_inputs = <<>>

\* C10: a HID device whose name matches the vendor-API heuristics is not in
\* the HID device list of a session, so no poll returns both a gp event of the
\* vendor backend and a js event of such a device.
C10_VendorCoveredExcluded ==
    ~(/\ \E i \in DOMAIN detected_inputs : detected_inputs[i].input_string[1] = "gp"
      /\ \E k \in DOMAIN poll_log :
             /\ poll_log[k].events # <<>>
             /\ SkippedByDetectJoysticks(env.windows, DeviceOfPath(poll_log[k].path)))

(* ------------------------------------------------------------------ *)
(* Properties of the sessions (checked under SpecSession)              *)
(* ------------------------------------------------------------------ *)
\* C11: in an event-publishing session the detection-complete signal is
\* published exactly once when the session ends and not before, carries the
\* session's identifier, and is the last thing published: no input-detected
\* event and no poll follows it.
C11_CompleteOnceAndLast ==
    session.mode = "events" =>
        /\ (session.pc = "done" =>
                /\ session.completes = 1
                /\ session.complete_id = Some(session.session_id)
                /\ session.last = "complete")
        /\ (session.pc # "done" => session.completes = 0 /\ session.last # "complete")
        /\ ~session.late

\* C11 witness: a session that published inputs and then its one completion
C11_Witness ==
    /\ session.mode = "events"
    /\ session.pc = "done"
    /\ session.inputs >= 2
    /\ session.completes = 1
    /\ session.complete_id = Some("s2")

C12_Step ==
    session.mode = "events" =>
        /\ (session.pc # "done" /\ session'.pc = "done") =>
               /\ session.pc = "check"
               /\ session'.ended_at = Some(session.now)
        /\ (session.pc = "check" /\ session'.pc # "check") =>
               (session'.pc = "done"
                  <=> IF session.inputs = 0
                      THEN session.now - session.start >= session.initial_timeout
                      ELSE session.now - Unwrap(session.first_input_time)
                               >= session.collect_duration)
        /\ (session.inputs = 0) = (session.first_input_time = None)
        /\ (session.inputs = 0 /\ session'.inputs > 0) =>
               session'.first_input_time = Some(session'.now)
        /\ session.inputs > 0 => session'.first_input_time = session.first_input_time

\* C12: while no event has been observed an event-publishing session ends at
\* the first loop check at or after the initial timeout; once the first event
\* has been observed it ends at the first loop check at least collect_duration
\* after that event, whatever the initial timeout; later events leave the
\* collection window where it is.
C12_TwoWindows == [][C12_Step]_vars

\* C12 witness: a session that observed events and ended before its initial
\* timeout
C12_Witness ==
    /\ session.mode = "events"
    /\ session.pc = "done"
    /\ session.inputs >= 2
    /\ session.collect_duration = 0
    /\ Unwrap(session.ended_at) - session.start < session.initial_timeout

\* C13: every session, event-publishing or single-result, terminates,
\* whatever the timeouts and whatever the devices send, as long as the loop
\* runs and the clock advances while it sleeps.
C13_Terminates == <>(session.pc = "done")

\* C13 witness: a session that ended by its deadline after two polls that read
\* queued reports
C13_Witness ==
    /\ session.pc = "done"
    /\ session.polls >= 2
    /\ session.inputs = 0
    /\ session.result \in {None, Some(None)}
    /\ \E p \in DOMAIN prev_hid_reports : TRUE

IsGp(ev) == ev.input_string[1] = "gp"

\* ev comes first in poll order among events: vendor slots in slot order with
\* the button before the axes and the axes in axis order, then the HID
\* devices in enumeration order
FirstInPollOrder(ev, events) ==
    LET all == {events[i] : i \in DOMAIN events}
    IN  /\ ev \in all
        /\ (\E o \in all : IsGp(o)) => IsGp(ev)
        /\ \A o \in all :
               IsGp(o) = IsGp(ev) => o.input_string[2] >= ev.input_string[2]
        /\ IsGp(ev) =>
               \A o \in all :
                   (IsGp(o) /\ o.input_string[2] = ev.input_string[2] /\ o # ev) =>
                       /\ KindOf(o) = "axis"
                       /\ KindOf(ev) = "axis" => o.input_string[4] > ev.input_string[4]

C14_Step ==
    session.mode = "single" =>
        /\ (session.pc = "poll" /\ session'.pc # "poll") =>
               IF detected_inputs' # <<>>
               THEN /\ session'.pc = "done"
                    /\ session'.result # None
                    /\ Unwrap(session'.result) # None
                    /\ FirstInPollOrder(Unwrap(Unwrap(session'.result)), detected_inputs')
               ELSE session'.pc = "sleep" /\ session'.result = None
        /\ (session.pc = "check" /\ session'.pc # "check") =>
               IF session.now - session.start >= session.initial_timeout
               THEN session'.pc = "done" /\ session'.result = Some(None)
               ELSE session'.pc = "poll" /\ session'.result = None
        /\ (session.pc # "done" /\ session'.pc = "done") => session.pc \in {"check", "poll"}
        /\ session.pc = "done" => session'.result = session.result
        /\ session.initial_timeout = 0 =>
               /\ session'.polls = 0
               /\ session'.pc = "done" => session'.result = Some(None)

\* C14: wait_for_input returns the first event, in poll order, of the first
\* poll that detects any event and drops the others of that poll; it returns
\* none iff the deadline passes at a loop check before any poll has detected
\* an event; with a timeout of 0 it returns none without polling.
C14_FirstEventOrNone == [][C14_Step]_vars

\* C14 witness: the poll that ended the call detected a button and an axis of
\* slot 0 and a button of slot 1, and the call returned the button of slot 0
C14_Witness ==
    /\ session.mode = "single"
    /\ session.pc = "done"
    /\ Len(detected_inputs) >= 3
    /\ session.result = Some(Some(detected_inputs[1]))
    /\ detected_inputs[1].input_string = <<"gp", 1, "button", 1>>
    /\ \E i \in DOMAIN detected_inputs :
           detected_inputs[i].input_string = <<"gp", 2, "button", 1>>

(* ------------------------------------------------------------------ *)
(* Properties of the name classifier (checked under SpecPure)          *)
(* ------------------------------------------------------------------ *)
\* name has one of the indicators somewhere, read without regard to case
HasIndicator(name, indicators) ==
    \E indicator \in indicators :
        \E i \in 1 .. Len(name) :
            /\ i + Len(indicator) - 1 <= Len(name)
            /\ \A j \in 1 .. Len(indicator) : LowerChar(name[i + j - 1]) = indicator[j]

\* C15: is_gamepad answers true exactly for the names that hold, in any case,
\* no joystick indicator and at least one gamepad indicator; so a name with a
\* joystick indicator is a joystick also when it holds a gamepad indicator,
\* and a name with no indicator at all is a joystick.
C15_JoystickFirst ==
    probe.fn = "is_gamepad" =>
        (probe.result <=> /\ ~HasIndicator(probe.name, joystick_indicators)
                          /\ HasIndicator(probe.name, gamepad_indicators))

\* a name in mixed case with "X52" and "gamepad" in it was classified: joystick
C15_Witness ==
    /\ probe.fn = "is_gamepad"
    /\ HasIndicator(probe.name, {<<"x","5","2">>})
    /\ HasIndicator(probe.name, {<<"g","a","m","e","p","a","d">>})
    /\ probe.name # to_lowercase(probe.name)
    /\ probe.result = FALSE

(* ------------------------------------------------------------------ *)
(* Properties of the inferred bit depth (checked under SpecPure)       *)
(* ------------------------------------------------------------------ *)
\* the bit depth the snapshot holds for the one axis of the parsed report
ProbeDepth == Unwrap(probe.result).axis_bit_depths[probe.field.usage_id]
ProbeRange == probe.field.logical_maximum - probe.field.logical_minimum

RECURSIVE CeilLog2From(_, _)
CeilLog2From(r, e) == IF 2^e >= r THEN e ELSE CeilLog2From(r, e + 1)
\* ceil(log2(r)) for r > 0: the least e with r <= 2^e
CeilLog2(r) == CeilLog2From(r, 0)

\* C18 as stated: for an axis field with logical range r > 0 the bit depth in
\* the snapshot is ceil(log2(r)).
C18_CeilLog2 ==
    (probe.fn = "parse_hid_full_report" /\ ProbeRange > 0) =>
        ProbeDepth = CeilLog2(ProbeRange)

\* C18 amended: for an axis field with logical range r > 0 the bit depth in
\* the snapshot is the number of bits of r, the d with 2^(d-1) <= r < 2^d
\* (that is ceil(log2(r + 1)), one more than ceil(log2(r)) when r is a power
\* of two), whatever width the field declares.
C18_BitsOfRange ==
    (probe.fn = "parse_hid_full_report" /\ ProbeRange > 0) =>
        /\ 2^(ProbeDepth - 1) <= ProbeRange
        /\ ProbeRange < 2^ProbeDepth

\* a field whose range is a power of two and whose declared width is another
\* number than its inferred depth was parsed
C18_Witness ==
    /\ probe.fn = "parse_hid_full_report"
    /\ \E k \in 1 .. MaxK : ProbeRange = 2^k
    /\ probe.field.bits # ProbeDepth

\* C19: for k in 1..MaxK an axis field with logical range [0, 2^k - 1] is
\* decoded with bit depth k, also when it declares more than k bits.
C19_FullRangeDepth ==
    \A k \in 1 .. MaxK :
        (/\ probe.fn = "parse_hid_full_report"
         /\ probe.field.logical_minimum = 0
         /\ probe.field.logical_maximum = 2^k - 1) => ProbeDepth = k

\* [0, 1023] declared with 16 bits was decoded with depth 10
C19_Witness ==
    /\ probe.fn = "parse_hid_full_report"
    /\ probe.field.logical_minimum = 0
    /\ probe.field.logical_maximum = 1023
    /\ probe.field.bits = 16
    /\ ProbeDepth = 10

(* ------------------------------------------------------------------ *)
(* Properties of a session with failing devices (checked under         *)
(* SpecFaulty)                                                         *)
(* ------------------------------------------------------------------ *)
\* the 1-based place of the device in the enumeration new() got
EnumPosition(path) == CHOOSE i \in DOMAIN env.hid : env.hid[i].item.path = path

\* the instance numbers in the events a poll made of the reports of path
InstancesOf(log, path) ==
    UNION {{log[k].events[i].input_string[2] : i \in DOMAIN log[k].events} :
              k \in {j \in DOMAIN log : log[j].path = path}}

\* C16: in every poll the events of a HID device carry the device's 1-based
\* place in the enumeration (a device that did not open keeps its place), which
\* is at least 1; the events of vendor slot s carry s + 1; two HID devices
\* never carry the same number.
C16_InstanceIsPosition ==
    /\ \A k \in DOMAIN poll_log :
           InstancesOf(poll_log, poll_log[k].path)
               \subseteq {n \in {EnumPosition(poll_log[k].path)} : n >= 1}
    /\ \A i \in DOMAIN detected_inputs :
           LET ev == detected_inputs[i]
           IN  IsGp(ev) => /\ polled[ev.device_uuid[2]] # None
                           /\ ev.input_string[2] = ev.device_uuid[2] + 1
    /\ \A k1 \in DOMAIN poll_log, k2 \in DOMAIN poll_log :
           poll_log[k1].path # poll_log[k2].path =>
               InstancesOf(poll_log, poll_log[k1].path)
                   \cap InstancesOf(poll_log, poll_log[k2].path) = {}

\* one poll made events of the second and the third HID device and of vendor
\* slot 1, on a machine whose first HID device did not open
C16_Witness ==
    /\ ~env.hid[1].open_ok
    /\ InstancesOf(poll_log, env.hid[2].item.path) = {2}
    /\ InstancesOf(poll_log, env.hid[3].item.path) = {3}
    /\ \E i \in DOMAIN detected_inputs :
           /\ IsGp(detected_inputs[i])
           /\ detected_inputs[i].device_uuid[2] = 1
           /\ detected_inputs[i].input_string[2] = 2

\* the entries of a poll's log for reads that failed
FailedReads(log) == {k \in DOMAIN log : ~log[k].raw.read_ok}

\* C20 as stated: once a read from a device has failed, no later poll reads a
\* report from that device.
C20_NoReadAfterFailure ==
    [][\A k \in FailedReads(poll_log) :
           \A j \in DOMAIN poll_log' : poll_log'[j].path # poll_log[k].path]_vars

\* the step is a poll: no report arrived
IsPollStep == \A p \in DOMAIN hid_queue : Len(hid_queue'[p]) <= Len(hid_queue[p])

C20_Step ==
    /\ \A k \in FailedReads(poll_log') :
           LET entry == poll_log'[k]
           IN  /\ \A j \in DOMAIN poll_log' : poll_log'[j].path = entry.path => j <= k
               /\ entry.current = None
               /\ entry.events = <<>>
               /\ \E n \in 1 .. Len(hid_queue[entry.path]) :
                      /\ hid_queue[entry.path][n] = entry.raw
                      /\ hid_queue'[entry.path] =
                             SubSeq(hid_queue[entry.path], n + 1,
                                    Len(hid_queue[entry.path]))
    /\ IsPollStep =>
           \A i \in DOMAIN env.hid :
               LET path == env.hid[i].item.path
               IN  (env.hid[i].open_ok /\ hid_queue[path] # <<>>) =>
                       \E k \in DOMAIN poll_log' : poll_log'[k].path = path
    /\ \A k \in DOMAIN poll_log' : env.hid[EnumPosition(poll_log'[k].path)].open_ok

\* C20 amended: a read that fails ends the reading of that device for the
\* poll in progress only: it makes no snapshot and no event, the reports
\* behind it stay queued, and every later poll reads the device again whenever
\* something is queued for it.  A device whose open failed is never read.
C20_FailureEndsThisPollOnly == [][C20_Step]_vars

\* a read of the second device failed with a report queued behind it, which
\* the next poll will read
C20_Witness ==
    /\ \E k \in FailedReads(poll_log) :
           /\ hid_queue[poll_log[k].path] # <<>>
           /\ Head(hid_queue[poll_log[k].path]).read_ok
    /\ ~env.hid[1].open_ok

(* ------------------------------------------------------------------ *)
(* The direction an XInput axis remembers (checked under SpecVendor)   *)
(* ------------------------------------------------------------------ *)
\* last_triggered_direction of axis a of slot c; None also without an entry
DirectionOf(c, a) ==
    IF xinput_axis_states[c][a] = None THEN None
    ELSE Unwrap(xinput_axis_states[c][a]).last_triggered_direction

\* C17: after a poll, an axis of a vendor slot whose value in that poll was
\* within the dead zone (|value| < 0.3) remembers no direction; and the axis
\* remembers a direction only if an event of that direction was fired for it
\* since its last dead-zone sample (followed for axis 1 of slot 0).
C17_CentredForgets ==
    /\ \A c \in Slots : \A a \in Axes :
           (/\ polled[c] # None
            /\ ObsCentered(XAxisValues(Unwrap(polled[c]).state)[a]))
               => DirectionOf(c, a) = None
    /\ DirectionOf(0, 1) = Some(TRUE) => \E i \in DOMAIN hist.run : hist.run[i] = "positive"
    /\ DirectionOf(0, 1) = Some(FALSE) => \E i \in DOMAIN hist.run : hist.run[i] = "negative"

\* the stick fired a positive event, and the poll that just ended sampled it
\* inside the dead zone again: no direction is remembered
C17_Witness ==
    /\ polled[0] # None
    /\ ~Unwrap(polled[0]).first
    /\ ObsCentered(XAxisValues(Unwrap(polled[0]).state)[1])
    /\ hist.phase = "mid"
    /\ hist.pos >= 1
    /\ DirectionOf(0, 1) = None

(* ------------------------------------------------------------------ *)
(* Failure of the HID API (checked under SpecStart)                    *)
(* ------------------------------------------------------------------ *)
\* C21 as stated: on a machine whose HID API does not initialise a session
\* is aborted at its start: it never polls, publishes nothing and returns no
\* Ok value.
C21_StartAborted ==
    ~env.hid_api =>
        /\ session.polls = 0
        /\ session.inputs = 0
        /\ session.completes = 0
        /\ session.result = None

\* C21 amended: on such a machine the session starts with no HID device and
\* runs as usual: it polls the vendor slots until its deadline, publishes
\* their events, and ends with Ok (after the completion signal in an events
\* session); no error is returned.
C21_StartsWithoutHid ==
    ~env.hid_api =>
        /\ hid_devices = <<>>
        /\ opened_devices = {}
        /\ \A i \in DOMAIN detected_inputs : IsGp(detected_inputs[i])
        /\ session.pc = "sleep" => session.polls >= 1
        /\ session.pc = "done" =>
               IF session.mode = "events" THEN session.completes = 1
               ELSE session.result # None
        /\ (session.pc = "done" /\ session.polls = 0) =>
               Unwrap(session.ended_at) - session.start >= session.initial_timeout

\* a session on such a machine has published an event of the pad and ended
C21_Witness ==
    /\ ~env.hid_api
    /\ session.pc = "done"
    /\ session.polls >= 1
    /\ \/ session.mode = "events" /\ session.inputs >= 1 /\ session.completes = 1
       \/ session.mode = "single" /\ session.result # None
                                  /\ Unwrap(session.result) # None

\* the machine with the same pads and no HID device at all
WithoutHid(e) == [e EXCEPT !.hid_api = TRUE, !.hid = <<>>]

\* every slot that answered get_state during the call is in the list
SlotsListed(got, list) ==
    \A c \in Slots :
        got[c] # None => \E k \in DOMAIN list : list[k].name = XInputName(c)

\* C22: when the HID enumeration fails, detect_joysticks and
\* list_connected_devices return Ok with exactly what they return on the same
\* machine without HID devices, the connected vendor slots included; and the
\* detector of a session is the one built for no HID device, with the vendor
\* API loaded and polled.
C22_EnumerationFailureIsNoDevices ==
    ~env.hid_api =>
        /\ probe.fn = "detect_joysticks" =>
               /\ probe.result # None
               /\ probe.result = detect_joysticks(WithoutHid(env), probe.got)
               /\ SlotsListed(probe.got, Unwrap(probe.result))
        /\ probe.fn = "list_connected_devices" =>
               /\ probe.result # None
               /\ probe.result = list_connected_devices(WithoutHid(env), probe.got)
               /\ SlotsListed(probe.got, Unwrap(probe.result))
        /\ hid_devices = <<>>
        /\ device_descriptors = <<>>
        /\ device_instances = <<>>
        /\ hid_queue = <<>>
        /\ xinput = env.xinput_loaded
        /\ (session.polls >= 1 /\ session.pc = "sleep") =>
               \A i \in DOMAIN detected_inputs : polled[detected_inputs[i].device_uuid[2]] # None

\* on a machine whose enumeration fails a query listed the pad of slot 0 and
\* nothing else
C22_Witness ==
    /\ ~env.hid_api
    /\ probe.fn \in {"detect_joysticks", "list_connected_devices"}
    /\ probe.got[0] # None
    /\ Len(Unwrap(probe.result)) = 1
    /\ Unwrap(probe.result)[1].name = XInputName(0)

(* ------------------------------------------------------------------ *)
(* Reports that do not decode (checked under SpecHid)                  *)
(* ------------------------------------------------------------------ *)
\* the entries of a poll's log for reports that were read but did not decode
Undecoded(log) == {k \in DOMAIN log : log[k].raw.read_ok /\ log[k].current = None}

EntriesOfPath(log, path) == {k \in DOMAIN log : log[k].path = path}

C23_Step ==
    /\ \A k \in Undecoded(poll_log') : poll_log'[k].events = <<>>
    /\ \A k \in Undecoded(poll_log') :
           \A j \in EntriesOfPath(poll_log', poll_log'[k].path) :
               LET entry == poll_log'[j]
                   before == PrecedingDecoded(poll_log', j, prev_hid_reports)
               IN  /\ entry.prev = before
                   /\ (entry.current # None /\ before # None) =>
                          ((Pressed(Unwrap(entry.current)) \ Pressed(Unwrap(before)) # {})
                              <=> EventsOfKind(entry.events, "button") # <<>>)
    /\ \A k \in Undecoded(poll_log') :
           LET path == poll_log'[k].path
               last == LastDecoded(poll_log', path)
           IN  /\ Cardinality(EntriesOfPath(poll_log', path))
                      = Min2(ReadCap, Len(hid_queue[path]))
               /\ IF last # None \/ path \in DOMAIN prev_hid_reports
                  THEN /\ path \in DOMAIN prev_hid_reports'
                       /\ prev_hid_reports'[path] =
                              (IF last # None THEN Unwrap(last)
                               ELSE prev_hid_reports[path])
                  ELSE path \notin DOMAIN prev_hid_reports'

\* C23: a report that does not decode emits no event and leaves the device's
\* previous snapshot as it was; the drain goes on, every report queued behind
\* it is read in the same poll and compared with the last report that did
\* decode, which is also the snapshot the next poll starts from.
C23_UndecodedDiscarded == [][C23_Step]_vars

\* a report that did not decode was followed, in the same poll, by one whose
\* newly pressed button was reported against the snapshot from before
C23_Witness ==
    \E k \in Undecoded(poll_log) :
        /\ poll_log[k].prev # None
        /\ k + 1 \in DOMAIN poll_log
        /\ poll_log[k + 1].path = poll_log[k].path
        /\ poll_log[k + 1].current # None
        /\ EventsOfKind(poll_log[k + 1].events, "button") # <<>>

(* ------------------------------------------------------------------ *)
(* Threshold crossings of a vendor axis (checked under SpecVendorFair) *)
(* ------------------------------------------------------------------ *)
CentredSample == hist.sample # None /\ ObsCentered(Unwrap(hist.sample))
BeyondPositive == hist.sample # None /\ ObsAbove(Unwrap(hist.sample))
BeyondNegative == hist.sample # None /\ ObsBelow(Unwrap(hist.sample))
FiredDirection(d) == \E i \in DOMAIN hist.fired : hist.fired[i] = d

\* the polled value is more than the movement floor away from c
ObsFar(v, c) == 10 * Abs(v - c) > MOVEMENT_THRESHOLD * Unit

\* C24 as stated: an axis sampled in the dead zone that later stays beyond
\* +0.5 (resp. -0.5) for good has a positive (resp. negative) event emitted
\* after that dead-zone sample, whatever path it took there; and no two
\* events of one excursion have the same direction.
C24_MissesNoCrossing ==
    /\ [](CentredSample => (<>[]BeyondPositive => <>FiredDirection("positive")))
    /\ [](CentredSample => (<>[]BeyondNegative => <>FiredDirection("negative")))
    /\ [](\A i \in 1 .. (Len(hist.run) - 1) : hist.run[i] # hist.run[i + 1])

C24_Step ==
    /\ (hist'.sample # None /\ hist.phase # "idle" /\ hist.run = <<>>) =>
           LET v == Unwrap(hist'.sample)
           IN  hist'.fired =
                   IF ObsAbove(v) /\ ObsFar(v, hist.center) THEN <<"positive">>
                   ELSE IF ObsBelow(v) /\ ObsFar(v, hist.center) THEN <<"negative">>
                   ELSE <<>>
    /\ \A i \in 1 .. (Len(hist'.run) - 1) : hist'.run[i] # hist'.run[i + 1]

\* C24 (amended): while no event has fired since the axis's last dead-zone
\* sample, a poll emits the positive (resp. negative) event exactly when its
\* sample is beyond +0.5 (resp. -0.5) and more than 0.3 away from that
\* dead-zone sample, in that very poll; a crossing whose samples all stay
\* within 0.3 of the dead-zone sample emits nothing, however long the axis
\* stays beyond the threshold.  No two events in a row between two dead-zone
\* samples have the same direction.
C24_CrossingNeedsMovement == [][C24_Step]_vars

\* a crossing that was missed: the axis went from a dead-zone sample to
\* beyond +0.5, jittered there, and no event has fired
C24_Witness ==
    /\ hist.phase = "up1"
    /\ hist.run = <<>>
    /\ BeyondPositive
    /\ Unwrap(hist.sample) # 16385 * TriggerDivisor
    /\ ~ObsFar(Unwrap(hist.sample), hist.center)

(* ------------------------------------------------------------------ *)
(* The single-device axis probe (checked under SpecProbe)              *)
(* ------------------------------------------------------------------ *)
ProbeReturned(outcome, kind) ==
    /\ probe.fn = "detect_axis_movement_for_device"
    /\ probe.pc = "done"
    /\ probe.outcome = outcome
    /\ probe.kind = kind

\* axis a of a vendor reading has moved by more than 0.15 from the reading at
\* probe start and is deflected by more than 0.15
XAxisQualifies(state, a) ==
    LET v == XAxisValues(state)[a]
        v0 == XAxisValues(probe.initial)[a]
    IN  20 * Abs(v - v0) > 3 * Unit /\ 20 * Abs(v) > 3 * Unit

\* the axis with usage id u of a HID report has a reading at probe start, has
\* moved by at least 5% of its logical range from it, and is deflected by
\* more than 0.15
HidAxisQualifies(report, u) ==
    /\ u \in DOMAIN report.axis_values
    /\ u \in DOMAIN probe.initial.axis_values
    /\ LET range == report.axis_ranges[u][2] - report.axis_ranges[u][1]
       IN  /\ 20 * Abs(report.axis_values[u] - probe.initial.axis_values[u]) >= range
           /\ 20 * Abs(2 * (report.axis_values[u] - report.axis_ranges[u][1]) - range)
                  > 3 * range

\* C25: the probe returns (axis, value) only for an axis of its last reading
\* that differs from the reading captured at probe start (vendor: by more
\* than 0.15; HID: by at least 5% of the logical range) and is deflected by
\* more than 0.15; it returns none only when the timeout has elapsed; and for
\* a vendor slot the axis returned is the lowest-numbered qualifying axis of
\* the first reading that has one.
C25_ProbeReturnsMovedAxis ==
    /\ ProbeReturned("some", "xinput") =>
           LET last == Unwrap(probe.seen[Len(probe.seen)])
               a == Unwrap(probe.found).axis_id
           IN  /\ XAxisQualifies(last, a)
               /\ Unwrap(probe.found).value = [num |-> XAxisValues(last)[a], den |-> Unit]
               /\ \A b \in 1 .. (a - 1) : ~XAxisQualifies(last, b)
               /\ \A k \in 1 .. (Len(probe.seen) - 1) :
                      probe.seen[k] = None
                      \/ \A b \in Axes : ~XAxisQualifies(Unwrap(probe.seen[k]), b)
    /\ ProbeReturned("some", "hid") =>
           LET last == Unwrap(probe.seen[Len(probe.seen)])
               a == Unwrap(probe.found).axis_id
               di_to_hid == Unwrap(get_directinput_to_hid_axis_mapping(
                                probe.target.descriptor))
           IN  /\ a \in DOMAIN di_to_hid
               /\ HidAxisQualifies(last, di_to_hid[a])
    /\ (ProbeReturned("none", "xinput") \/ ProbeReturned("none", "hid")) =>
           probe.elapsed >= probe.timeout

\* what does hold of the probe: the vendor part and the timeout part as
\* stated, and the HID part for an axis that the report read at probe start
\* contained
ProbeSoundForReadAxes ==
    /\ ProbeReturned("some", "xinput") =>
           LET last == Unwrap(probe.seen[Len(probe.seen)])
               a == Unwrap(probe.found).axis_id
           IN  /\ XAxisQualifies(last, a)
               /\ \A b \in 1 .. (a - 1) : ~XAxisQualifies(last, b)
               /\ \A k \in 1 .. (Len(probe.seen) - 1) :
                      probe.seen[k] = None
                      \/ \A b \in Axes : ~XAxisQualifies(Unwrap(probe.seen[k]), b)
    /\ ProbeReturned("some", "hid") =>
           LET last == Unwrap(probe.seen[Len(probe.seen)])
               a == Unwrap(probe.found).axis_id
               di_to_hid == Unwrap(get_directinput_to_hid_axis_mapping(
                                probe.target.descriptor))
           IN  di_to_hid[a] \in DOMAIN probe.initial.axis_values
                   => HidAxisQualifies(last, di_to_hid[a])
    /\ (ProbeReturned("none", "xinput") \/ ProbeReturned("none", "hid")) =>
           probe.elapsed >= probe.timeout

\* the probe returned an axis of which it had no reading at probe start
ProbeReturnedUnreadAxis ==
    /\ ProbeReturned("some", "hid")
    /\ Unwrap(get_directinput_to_hid_axis_mapping(probe.target.descriptor))[
           Unwrap(probe.found).axis_id] \notin DOMAIN probe.initial.axis_values

(* ------------------------------------------------------------------ *)
(* InputDetector::new step by step, and the handles it opens           *)
(* session is the position in the device loop of new(): idx is the      *)
(* device at hand, handles counts the open OS handles per path.         *)
(* ------------------------------------------------------------------ *)
BuildEnvA ==
    [hid_api |-> TRUE, xinput_loaded |-> FALSE, windows |-> FALSE, pads |-> NoPads,
     hid |-> << [OneButton("hid1", 1) EXCEPT !.open_ok = FALSE],
                [OneButton("hid2", 2) EXCEPT !.descriptor_ok = FALSE],
                OneButton("hid3", 3) >>]
BuildEnvB ==
    [hid_api |-> TRUE, xinput_loaded |-> FALSE, windows |-> FALSE, pads |-> NoPads,
     hid |-> << [OneButton("hid1", 1) EXCEPT !.mapping_ok = FALSE],
                OneButton("hid2", 2) >>]
BuildScenarios == {BuildEnvA, BuildEnvB}

\* new() up to `for (idx, device) in hid_devices.iter().enumerate()`
InitBuild ==
    /\ env \in BuildScenarios
    /\ xinput = env.xinput_loaded
    /\ xinput_prev_states = [c \in Slots |-> None]
    /\ xinput_axis_states = [c \in Slots |-> [a \in Axes |-> None]]
    /\ hid_devices = [i \in DOMAIN EnumeratedHid(env) |-> EnumeratedHid(env)[i].item]
    /\ opened_devices = {}
    /\ device_descriptors = <<>>
    /\ device_instances = <<>>
    /\ device_hid_to_axis_maps = <<>>
    /\ prev_hid_reports = <<>>
    /\ hid_queue = <<>>
    /\ detected_inputs = <<>>
    /\ polled = [c \in Slots |-> None]
    /\ poll_log = <<>>
    /\ hist = IdleHist
    /\ session = [mode |-> "new", pc |-> "open", idx |-> 1,
                  handles |-> [i \in DOMAIN EnumeratedHid(env) |-> 0]]
    /\ probe = NoProbe

BuildFrame == UNCHANGED <<env, xinput, xinput_prev_states, xinput_axis_states,
                          hid_devices, prev_hid_reports, detected_inputs, polled,
                          poll_log, hist, probe>>

Building(pc) == session.mode = "new" /\ session.pc = pc

DeviceAtHand == EnumeratedHid(env)[session.idx]

\* the loop moves on to the next device
NextDevice(s) == [s EXCEPT !.pc = "open", !.idx = @ + 1]

\* NewOpen without the `continue` of a failed open
NewOpenNoContinue ==
    /\ Building("open")
    /\ session.idx <= Len(EnumeratedHid(env))
    /\ IF DeviceAtHand.open_ok
       THEN /\ opened_devices' = opened_devices \cup {DeviceAtHand.item.path}
            /\ hid_queue' = Insert(hid_queue, DeviceAtHand.item.path, <<>>)
            /\ session' = [session EXCEPT !.pc = "descriptor",
                                          !.handles[session.idx] = @ + 1]
       ELSE /\ session' = [session EXCEPT !.pc = "descriptor"]
            /\ UNCHANGED <<opened_devices, hid_queue>>
    /\ UNCHANGED <<device_descriptors, device_instances, device_hid_to_axis_maps>>
    /\ BuildFrame

\* OpenedHidDevice::open(&device.path) and the insert into opened_devices
NewOpen ==
    /\ Building("open")
    /\ session.idx <= Len(EnumeratedHid(env))
    /\ IF DeviceAtHand.open_ok
       THEN /\ opened_devices' = opened_devices \cup {DeviceAtHand.item.path}
            /\ hid_queue' = Insert(hid_queue, DeviceAtHand.item.path, <<>>)
            /\ session' = [session EXCEPT !.pc = "descriptor",
                                          !.handles[session.idx] = @ + 1]
       ELSE /\ session' = NextDevice(session)
            /\ UNCHANGED <<opened_devices, hid_queue>>
    /\ UNCHANGED <<device_descriptors, device_instances, device_hid_to_axis_maps>>
    /\ BuildFrame

\* get_hid_descriptor_bytes(&device.path) up to its return: api.open_path opens
\* the path once more; when the call fails, it fails at open_path or with the
\* handle open
NewDescriptorCall ==
    /\ Building("descriptor")
    /\ \E opened \in BOOLEAN :
           /\ DeviceAtHand.descriptor_ok => opened
           /\ session' = IF opened
                         THEN [session EXCEPT !.pc = "descriptor_open",
                                              !.handles[session.idx] = @ + 1]
                         ELSE NextDevice(session)
    /\ UNCHANGED <<opened_devices, hid_queue, device_descriptors, device_instances,
                   device_hid_to_axis_maps>>
    /\ BuildFrame

\* NewDescriptorReturn that keeps the handle of get_hid_descriptor_bytes open
NewDescriptorReturnLeak ==
    /\ Building("descriptor_open")
    /\ IF DeviceAtHand.descriptor_ok
       THEN /\ device_descriptors' =
                   Insert(device_descriptors, DeviceAtHand.item.path,
                          DeviceAtHand.descriptor)
            /\ device_instances' =
                   Insert(device_instances, DeviceAtHand.item.path, (session.idx - 1) + 1)
            /\ session' = [session EXCEPT !.pc = "mapping"]
       ELSE /\ session' = NextDevice(session)
            /\ UNCHANGED <<device_descriptors, device_instances>>
    /\ UNCHANGED <<opened_devices, hid_queue, device_hid_to_axis_maps>>
    /\ BuildFrame

\* get_hid_descriptor_bytes returns: its handle is dropped; on Ok the inserts
\* into device_descriptors and device_instances (idx + 1, idx counted from 0)
NewDescriptorReturn ==
    /\ Building("descriptor_open")
    /\ IF DeviceAtHand.descriptor_ok
       THEN /\ device_descriptors' =
                   Insert(device_descriptors, DeviceAtHand.item.path,
                          DeviceAtHand.descriptor)
            /\ device_instances' =
                   Insert(device_instances, DeviceAtHand.item.path, (session.idx - 1) + 1)
            /\ session' = [session EXCEPT !.pc = "mapping",
                                          !.handles[session.idx] = @ - 1]
       ELSE /\ session' = [NextDevice(session) EXCEPT !.handles[session.idx] = @ - 1]
            /\ UNCHANGED <<device_descriptors, device_instances>>
    /\ UNCHANGED <<opened_devices, hid_queue, device_hid_to_axis_maps>>
    /\ BuildFrame

\* get_directinput_to_hid_axis_mapping(&device.path) up to its return: it
\* calls get_hid_descriptor_bytes, which opens the path again
NewMappingCall ==
    /\ Building("mapping")
    /\ \E opened \in BOOLEAN :
           /\ DeviceAtHand.mapping_ok => opened
           /\ session' = IF opened
                         THEN [session EXCEPT !.pc = "mapping_open",
                                              !.handles[session.idx] = @ + 1]
                         ELSE NextDevice(session)
    /\ UNCHANGED <<opened_devices, hid_queue, device_descriptors, device_instances,
                   device_hid_to_axis_maps>>
    /\ BuildFrame

\* it returns: the handle is dropped; on Ok the mapping is inverted and stored
NewMappingReturn ==
    /\ Building("mapping_open")
    /\ LET di_to_hid == IF DeviceAtHand.mapping_ok
                        THEN get_directinput_to_hid_axis_mapping(DeviceAtHand.descriptor)
                        ELSE None
       IN  IF di_to_hid = None
           THEN UNCHANGED device_hid_to_axis_maps
           ELSE \E hid_to_axis \in HidToAxisMaps(Unwrap(di_to_hid)) :
                    device_hid_to_axis_maps' =
                        Insert(device_hid_to_axis_maps, DeviceAtHand.item.path,
                               hid_to_axis)
    /\ session' = [NextDevice(session) EXCEPT !.handles[session.idx] = @ - 1]
    /\ UNCHANGED <<opened_devices, hid_queue, device_descriptors, device_instances>>
    /\ BuildFrame

\* the loop is over: new() returns the detector
NewReturn ==
    /\ Building("open")
    /\ session.idx > Len(EnumeratedHid(env))
    /\ session' = [session EXCEPT !.pc = "built"]
    /\ UNCHANGED <<opened_devices, hid_queue, device_descriptors, device_instances,
                   device_hid_to_axis_maps>>
    /\ BuildFrame

\* the session polls the detector it built
BuiltPoll == Building("built") /\ PollAction

\* the session function returns: the detector is dropped and with it the
\* OpenedHidDevice values of opened_devices
DropDetector ==
    /\ Building("built")
    /\ session' = [session EXCEPT
                      !.pc = "dropped",
                      !.handles = [i \in DOMAIN session.handles |->
                                      IF EnumeratedHid(env)[i].item.path \in opened_devices
                                      THEN session.handles[i] - 1
                                      ELSE session.handles[i]]]
    /\ opened_devices' = {}
    /\ UNCHANGED <<hid_queue, device_descriptors, device_instances,
                   device_hid_to_axis_maps>>
    /\ BuildFrame

\* a device sends a report while the detector exists
BuildReportArrives == session.pc # "dropped" /\ HidReportArrives

NextBuild ==
    \/ NewOpen
    \/ NewDescriptorCall
    \/ NewDescriptorReturn
    \/ NewMappingCall
    \/ NewMappingReturn
    \/ NewReturn
    \/ BuiltPoll
    \/ BuildReportArrives
    \/ DropDetector

SpecBuild == InitBuild /\ [][NextBuild]_vars

(* ------------------------------------------------------------------ *)
(* Device handles (checked under SpecBuild)                            *)
(* ------------------------------------------------------------------ *)
HeldByDetector(i) == EnumeratedHid(env)[i].item.path \in opened_devices

\* C26 as stated: a HID device never has more than one open handle, so no
\* path is opened while the detector holds a handle for it, and when the
\* session has ended no handle is open.
C26_OneHandlePerDevice ==
    /\ \A i \in DOMAIN session.handles : session.handles[i] <= 1
    /\ Building("dropped") => \A i \in DOMAIN session.handles : session.handles[i] = 0

C26_Step ==
    \A i \in DOMAIN session.handles :
        (session'.handles[i] > session.handles[i] /\ HeldByDetector(i)) =>
            /\ session.pc \in {"descriptor", "mapping"}
            /\ session.idx = i

\* C26 (amended): the detector holds one handle per device it could open,
\* from new() to the end of the session, and nothing else is open once new()
\* has returned; all handles are released when the session ends.  While new()
\* runs, the detector does open the path of a device it already holds: the
\* descriptor fetch and the axis-mapping fetch each open it once more for the
\* duration of the call, so the device at hand has up to two handles open,
\* and only then.
C26_HandlesHeld ==
    /\ [](\A i \in DOMAIN session.handles :
             /\ session.handles[i] <= 2
             /\ session.handles[i] >= (IF HeldByDetector(i) THEN 1 ELSE 0)
             /\ session.handles[i] = 2 =>
                    (session.idx = i /\ session.pc \in {"descriptor_open", "mapping_open"})
             /\ session.pc \in {"built", "dropped"} =>
                    session.handles[i] = (IF HeldByDetector(i) THEN 1 ELSE 0))
    /\ [](Building("dropped") => opened_devices = {})
    /\ [][C26_Step]_vars

\* the detector's own handle and the one of its descriptor fetch are open
\* together on one device
C26_Witness ==
    \E i \in DOMAIN session.handles :
        /\ session.handles[i] = 2
        /\ HeldByDetector(i)
        /\ session.pc = "descriptor_open"

(* ------------------------------------------------------------------ *)
(* The vendor axis rule, axis by axis (checked under SpecVendor)       *)
(* ------------------------------------------------------------------ *)
\* the events of a poll's result for axis a of slot c in direction d
AxisEventsOf(events, c, a, d) ==
    {i \in DOMAIN events : events[i].input_string = <<"gp", c + 1, "axis", a, d>>}

\* slot c answered in the poll just made and had a previous state, so its
\* axes were examined
AxesExamined(c) == polled'[c] # None /\ ~Unwrap(polled'[c]).first

C27_AxisStep(c, a) ==
    LET value == XAxisValues(Unwrap(polled'[c]).state)[a]
        stored == IF xinput_axis_states[c][a] = None
                  THEN [last_value |-> value, last_triggered_direction |-> None]
                  ELSE Unwrap(xinput_axis_states[c][a])
        centred == 10 * Abs(value) < 3 * Unit
        moved == 10 * Abs(value - stored.last_value) > 3 * Unit
        positive == /\ 10 * value > 5 * Unit
                    /\ moved
                    /\ stored.last_triggered_direction # Some(TRUE)
        negative == /\ 10 * value < -(5 * Unit)
                    /\ moved
                    /\ stored.last_triggered_direction # Some(FALSE)
        after == Unwrap(xinput_axis_states'[c][a])
    IN  /\ Cardinality(AxisEventsOf(detected_inputs', c, a, "positive"))
               = (IF positive THEN 1 ELSE 0)
        /\ Cardinality(AxisEventsOf(detected_inputs', c, a, "negative"))
               = (IF negative THEN 1 ELSE 0)
        /\ positive =>
               after = [last_value |-> value, last_triggered_direction |-> Some(TRUE)]
        /\ negative =>
               after = [last_value |-> value, last_triggered_direction |-> Some(FALSE)]
        /\ centred =>
               after = [last_value |-> value, last_triggered_direction |-> None]
        /\ (~positive /\ ~negative /\ ~centred) => after = stored

C27_Step ==
    \A c \in Slots :
        IF AxesExamined(c)
        THEN \A a \in Axes : C27_AxisStep(c, a)
        ELSE /\ xinput_axis_states'[c] = xinput_axis_states[c]
             /\ \A a \in Axes : \A d \in {"positive", "negative"} :
                    AxisEventsOf(detected_inputs', c, a, d) = {}

\* C27: a poll that examines a vendor axis emits its positive (resp.
\* negative) event exactly when the value is above 0.5 (resp. below -0.5),
\* more than 0.3 away from the stored last_value, and the stored direction
\* is not already that direction; firing stores the value and the direction,
\* a dead-zone sample stores the value and clears the direction, and any
\* other sample leaves the stored state as it was.
C27_AxisRule == [][C27_Step]_vars

\* the last poll fired a positive event on axis 1 of slot 0 and stored the
\* value it fired at
C27_Witness ==
    /\ AxisEventsOf(detected_inputs, 0, 1, "positive") # {}
    /\ polled[0] # None
    /\ xinput_axis_states[0][1] =
           Some([last_value |-> XAxisValues(Unwrap(polled[0]).state)[1],
                 last_triggered_direction |-> Some(TRUE)])

(* ------------------------------------------------------------------ *)
(* Buttons in Variable and in Array fields                             *)
(* ------------------------------------------------------------------ *)
\* a button box: two buttons as one-bit Variable fields, the others as a
\* two-slot Array field that lists the usage ids of the pressed buttons in
\* the order the device puts them
ArrayEnv ==
    [hid_api |-> TRUE, xinput_loaded |-> FALSE, windows |-> FALSE, pads |-> NoPads,
     hid |-> << EnvDevice(
         Item("hid1", 1103, 1027, Name(<<"B","o","x">>)),
         Descriptor(ButtonFields(2) \o <<ArrayField(8)>>),
         { [read_ok |-> TRUE, matches |-> 1,
            values |-> ButtonValues(2, b) \o <<Some(slots)>>, hash_order |-> <<>>] :
               b \in {{}, {1}, {1, 2}},
               slots \in {<<0, 0>>, <<3, 0>>, <<7, 3>>, <<3, 7>>} }) >>]

ButtonScenarios == {ButtonsEnv, ArrayEnv}

InitButtons ==
    /\ \E e \in ButtonScenarios : \E got0 \in PadChoices(e) : Init_new(e, got0)
    /\ session = NoSession
    /\ probe = NoProbe

\* a bare poll loop on a machine with one of the two button devices
SpecButtons == InitButtons /\ [][Next]_vars

(* ------------------------------------------------------------------ *)
(* Several buttons pressed at once (checked under SpecButtons)         *)
(* ------------------------------------------------------------------ *)
SetMin(S) == CHOOSE x \in S : \A y \in S : x <= y

\* the first button of a report, in the order the report lists them, that
\* is not among the buttons before
FirstNew(buttons, before) ==
    buttons[SetMin({i \in DOMAIN buttons : buttons[i] \notin before})]

Ascending(seq) == \A i, j \in DOMAIN seq : i < j => seq[i] < seq[j]

C28_LowestStep ==
    \A k \in DOMAIN poll_log' :
        LET entry == poll_log'[k]
            before == PrecedingDecoded(poll_log', k, prev_hid_reports)
        IN  (entry.current # None /\ before # None) =>
                LET newly == Pressed(Unwrap(entry.current)) \ Pressed(Unwrap(before))
                    button_events == EventsOfKind(entry.events, "button")
                IN  newly # {} =>
                        /\ Len(button_events) = 1
                        /\ button_events[1].input_string[4] = SetMin(newly)

C28_Step ==
    \A k \in DOMAIN poll_log' :
        LET entry == poll_log'[k]
            before == PrecedingDecoded(poll_log', k, prev_hid_reports)
        IN  (entry.current # None /\ before # None) =>
                LET buttons == Unwrap(entry.current).pressed_buttons
                    newly == Pressed(Unwrap(entry.current)) \ Pressed(Unwrap(before))
                    button_events == EventsOfKind(entry.events, "button")
                IN  /\ Len(button_events) = (IF newly = {} THEN 0 ELSE 1)
                    /\ newly # {} =>
                           /\ button_events[1].input_string[4]
                                  = FirstNew(buttons, Pressed(Unwrap(before)))
                           /\ Ascending(buttons) =>
                                  button_events[1].input_string[4] = SetMin(newly)
                    /\ \A j \in DOMAIN poll_log' :
                           (/\ j > k
                            /\ poll_log'[j].path = entry.path
                            /\ poll_log'[j].current # None
                            /\ PrecedingDecoded(poll_log', j, prev_hid_reports)
                                   = entry.current) =>
                               \A i \in DOMAIN poll_log'[j].events :
                                   KindOf(poll_log'[j].events[i]) = "button" =>
                                       poll_log'[j].events[i].input_string[4]
                                           \notin Pressed(Unwrap(entry.current))
                    /\ (LastDecoded(poll_log', entry.path) = entry.current) =>
                           Pressed(prev_hid_reports'[entry.path])
                               = Pressed(Unwrap(entry.current))

SliderFields ==
    << VarField(1, 48, 0, 1023, 16), VarField(1, 54, 0, 1023, 16),
       VarField(1, 54, 0, 1023, 16) >>

SliderEnv ==
    [hid_api |-> TRUE, xinput_loaded |-> FALSE, windows |-> FALSE, pads |-> NoPads,
     hid |-> << EnvDevice(
         Item("hid1", 1103, 1028, Name(<<"T","h","r","o","t","t","l","e">>)),
         Descriptor(SliderFields),
         { RawReport(<<Some(x), Some(s1), Some(s2)>>, o) :
               x \in {512, 1023}, s1 \in {0, 1023}, s2 \in {0, 1023},
               o \in {<<48, 54>>, <<54, 48>>} }) >>]

AxisScenarios == {AxisEnv(<<0, 1023>>), SliderEnv}

InitAxes ==
    /\ \E e \in AxisScenarios : \E got0 \in PadChoices(e) : Init_new(e, got0)
    /\ session = NoSession
    /\ probe = NoProbe

\* a bare poll loop on a machine with one of the two axis devices
SpecAxes == InitAxes /\ [][Next]_vars

(* ------------------------------------------------------------------ *)
(* Axis numbers (checked under SpecAxes)                               *)
(* ------------------------------------------------------------------ *)
\* the axis fields of a descriptor in encounter order across its input
\* reports, each with the report it is in
AxisFieldList(descriptor) ==
    Concat([k \in DOMAIN descriptor.input_reports |->
               [i \in DOMAIN AxisFieldUsages(descriptor.input_reports[k]) |->
                   [report |-> k,
                    usage |-> AxisFieldUsages(descriptor.input_reports[k])[i]]]])

\* the 1-based position of the field that the value stored for usage u of a
\* report of kind k was read from: the last field of the report with that
\* usage, since each field's value is stored under its usage id
SourceField(descriptor, k, u) ==
    LET list == AxisFieldList(descriptor)
        at == {pos \in DOMAIN list : list[pos].report = k /\ list[pos].usage = u}
    IN  CHOOSE pos \in at : \A other \in at : other <= pos

C29_Step ==
    \A k \in DOMAIN poll_log' :
        LET entry == poll_log'[k]
            before == PrecedingDecoded(poll_log', k, prev_hid_reports)
        IN  (entry.current # None /\ before # None) =>
                LET axis_events == EventsOfKind(entry.events, "axis")
                IN  {axis_events[i].input_string[4] : i \in DOMAIN axis_events}
                        = {SourceField(device_descriptors[entry.path],
                                       entry.raw.matches, u) :
                              u \in MovedAxes(Unwrap(before), Unwrap(entry.current))}

\* C29: the axis numbers of the axis events of a report are the 1-based
\* positions, in encounter order across the input reports of the descriptor,
\* of the axis fields whose values moved, also when two fields have the same
\* usage id.
C29_AxisNumberIsFieldPosition == [][C29_Step]_vars

\* the value of the second slider moved and the event carries the number of
\* the first
SliderMisnumbered ==
    \E k \in DOMAIN poll_log :
        /\ poll_log[k].current # None
        /\ poll_log[k].prev # None
        /\ 54 \in DOMAIN Unwrap(poll_log[k].current).axis_values
        /\ Unwrap(poll_log[k].current).axis_values[54]
               # Unwrap(poll_log[k].prev).axis_values[54]
        /\ \E i \in DOMAIN poll_log[k].events :
               SubSeq(poll_log[k].events[i].input_string, 3, 4) = <<"axis", 2>>

(* ------------------------------------------------------------------ *)
(* From the raw field value to the normalized value                    *)
(* ------------------------------------------------------------------ *)
\* ((current_value as i32 - logical_min) as f32 / range * 2.0) - 1.0, as the
\* fraction [num, den]
Normalized(current_value, logical_min, range) ==
    [num |-> 2 * (current_value - logical_min) - range, den |-> range]

\* logical ranges with max > min: unsigned, signed, wholly negative, offset
NormRanges == { <<0, 7>>, <<0, 63>>, <<3, 20>>, <<-8, 7>>, <<-127, 127>>, <<-100, -10>> }

\* a report whose one axis field (16 bits) holds v, decoded and normalized as
\* the axis check of poll does
CallNormalize ==
    /\ probe = NoProbe
    /\ \E r \in NormRanges : \E v \in r[1] .. r[2] :
           LET report == Unwrap(parse_hid_full_report(
                                    RawReport(<<Some(v)>>, <<48>>),
                                    Descriptor(<<ProbeField(r, 16)>>)))
               logical_min == report.axis_ranges[48][1]
               logical_max == report.axis_ranges[48][2]
           IN  probe' = [fn |-> "normalized", range |-> r, raw |-> v,
                         stored |-> report.axis_values[48],
                         normalized |-> Normalized(report.axis_values[48], logical_min,
                                                   logical_max - logical_min)]
    /\ UNCHANGED <<env, xinput, xinput_prev_states, xinput_axis_states, hid_devices,
                   device_descriptors, device_instances, device_hid_to_axis_maps,
                   prev_hid_reports, opened_devices, hid_queue, detected_inputs,
                   polled, poll_log, hist, session>>

NextNormalize == CallNormalize

\* one decode and normalization per behaviour
SpecNormalize == InitPure /\ [][NextNormalize]_vars

(* ------------------------------------------------------------------ *)
(* Normalization (checked under SpecNormalize)                         *)
(* ------------------------------------------------------------------ *)
\* C30: for a raw value v within a logical range with max > min, the
\* snapshot stores v, and the normalized value is 2 * (v - min) / (max - min)
\* - 1, lies in [-1, 1] and is negative exactly when v is below the midpoint
\* of the range, for ranges with negative min too.
C30_NormalizedFromRaw ==
    probe.fn = "normalized" =>
        LET lmin == probe.range[1]
            lmax == probe.range[2]
        IN  /\ probe.stored = probe.raw
            /\ probe.normalized.num * (lmax - lmin)
                   = (2 * (probe.raw - lmin) - (lmax - lmin)) * probe.normalized.den
            /\ Abs(probe.normalized.num) <= probe.normalized.den
            /\ probe.normalized.num < 0 <=> 2 * probe.raw < lmin + lmax

\* what does hold: the claim for raw values that are not negative
NormalizedFromNonNegativeRaw ==
    (probe.fn = "normalized" /\ probe.raw >= 0) =>
        LET lmin == probe.range[1]
            lmax == probe.range[2]
        IN  /\ probe.stored = probe.raw
            /\ probe.normalized.num * (lmax - lmin)
                   = (2 * (probe.raw - lmin) - (lmax - lmin)) * probe.normalized.den
            /\ Abs(probe.normalized.num) <= probe.normalized.den
            /\ probe.normalized.num < 0 <=> 2 * probe.raw < lmin + lmax

(* ------------------------------------------------------------------ *)
(* A backlog: more reports queued for a device than one poll reads     *)
(* ------------------------------------------------------------------ *)
\* reports the OS queue of a device holds at most when polls are late
MaxBacklog == 11

\* a pad in slot 0 and a joystick sending button reports
BacklogEnv ==
    [hid_api |-> TRUE, xinput_loaded |-> TRUE, windows |-> TRUE,
     pads |-> [c \in Slots |->
                 IF c = 0 THEN {Some(Pad(0, 0, 0)), Some(Pad(4096, 0, 0))} ELSE {None}],
     hid |-> << OneButton("hid1", 1) >>]

\* a joystick some of whose reports match no input report of its descriptor
UndecodedEnv ==
    [hid_api |-> TRUE, xinput_loaded |-> FALSE, windows |-> FALSE, pads |-> NoPads,
     hid |-> << [OneButton("hid1", 1) EXCEPT
                    !.reports = {RawReport(ButtonValues(1, {1}), <<>>), BadReport}] >>]

\* a joystick some of whose reads fail
FailingEnv ==
    [hid_api |-> TRUE, xinput_loaded |-> FALSE, windows |-> FALSE, pads |-> NoPads,
     hid |-> << [OneButton("hid1", 1) EXCEPT
                    !.reports = {RawReport(ButtonValues(1, {1}), <<>>), ReadFailure}] >>]

BacklogScenarios == {BacklogEnv, UndecodedEnv, FailingEnv}

InitBacklog ==
    /\ \E e \in BacklogScenarios : \E got0 \in PadChoices(e) : Init_new(e, got0)
    /\ session = NoSession
    /\ probe = NoProbe

\* HidReportArrives with a queue that holds up to MaxBacklog reports
BacklogReportArrives ==
    \E i \in DOMAIN env.hid :
        \E r \in env.hid[i].reports :
            LET p == env.hid[i].item.path
            IN  /\ p \in DOMAIN hid_queue
                /\ Len(hid_queue[p]) < MaxBacklog
                /\ hid_queue' = [hid_queue EXCEPT ![p] = Append(@, r)]
                /\ detected_inputs' = <<>>
                /\ poll_log' = <<>>
                /\ polled' = [c \in Slots |-> None]
                /\ hist' = [hist EXCEPT !.sample = None, !.fired = <<>>]
                /\ UNCHANGED <<env, xinput, xinput_prev_states, xinput_axis_states,
                               hid_devices, device_descriptors, device_instances,
                               device_hid_to_axis_maps, prev_hid_reports,
                               opened_devices, session, probe>>

NextBacklog == PollAction \/ BacklogReportArrives

\* a bare poll loop that can fall behind the devices
SpecBacklog == InitBacklog /\ [][NextBacklog]_vars

\* the raw reports a poll read from a device, in the order of the reads
ReadsOfPath(log, path) ==
    LET mine == SelectSeq(log, LAMBDA entry : entry.path = path)
    IN  [k \in DOMAIN mine |-> mine[k].raw]

\* the reads of a sequence of reads that returned a report
Returned(reads) == SelectSeq(reads, LAMBDA raw : raw.read_ok)

C31_Step ==
    /\ \A i, j \in DOMAIN detected_inputs' :
           (IsGp(detected_inputs'[j]) /\ ~IsGp(detected_inputs'[i])) => j < i
    /\ IsPollStep =>
           \A d \in DOMAIN hid_devices :
               LET path == hid_devices[d].path
                   reads == ReadsOfPath(poll_log', path)
               IN  IsPolled(hid_devices[d]) =>
                       /\ Len(reads) <= ReadCap
                       /\ hid_queue[path] = reads \o hid_queue'[path]
                       /\ \A k \in DOMAIN reads : ~reads[k].read_ok => k = Len(reads)
                       /\ \/ hid_queue'[path] = <<>>
                          \/ Len(Returned(reads)) = ReadCap
                          \/ (reads # <<>> /\ ~reads[Len(reads)].read_ok)

\* C31: in one poll the events of the vendor slots come before the events of
\* every HID device; a poll reads at most ReadCap reports from a device,
\* counting those that do not decode; it stops reading a device at the
\* first empty read or failed read, or at the cap; what it read is the front
\* of the queue, and the rest stays queued in arrival order for later polls.
C31_BoundedDrain == [][C31_Step]_vars

\* a poll read ReadCap reports of a device, one of them undecoded, and left a
\* report queued
C31_Witness ==
    \E path \in DOMAIN hid_queue :
        /\ Len(ReadsOfPath(poll_log, path)) = ReadCap
        /\ Undecoded(poll_log) # {}
        /\ hid_queue[path] # <<>>

\* a poll reported a pad button of slot 0 ahead of a joystick button
C31_VendorFirst ==
    /\ Len(detected_inputs) = 2
    /\ IsGp(detected_inputs[1])
    /\ ~IsGp(detected_inputs[2])

(* ------------------------------------------------------------------ *)
(* The buttons of a decoded report                                     *)
(* ------------------------------------------------------------------ *)
\* a field list of an input report: buttons around an axis, an Array field
\* and padding
MixedFields ==
    << VarField(ButtonPage, 1, 0, 1, 1), VarField(1, 48, 0, 1023, 16),
       VarField(ButtonPage, 2, 0, 1, 1), ArrayField(8),
       VarField(ButtonPage, 3, -1, 0, 1), ConstField(5) >>

\* a button whose usage id is that of the axis next to it
SameIdFields ==
    << VarField(ButtonPage, 48, 0, 1, 1), VarField(1, 48, 0, 255, 8),
       VarField(ButtonPage, 49, 0, 1, 1) >>

\* what extracting a field can give: None when the extraction fails
ButtonExtracts == {None, Some(0), Some(1), Some(-1)}
AxisExtracts == {None, Some(200)}
ArrayExtracts ==
    {None} \cup {Some(<<a, b>>) : a \in {0, 2, 255, 256}, b \in {-1, 0, 1, 2}}

Decoded(fields, values) ==
    [fn |-> "decode", fields |-> fields, values |-> values,
     result |-> parse_hid_full_report([read_ok |-> TRUE, matches |-> 1,
                                       values |-> values, hash_order |-> <<>>],
                                      Descriptor(fields))]

\* one call of parse_hid_full_report on a report of one of the two layouts
CallDecode ==
    /\ probe = NoProbe
    /\ \E b1 \in ButtonExtracts, b2 \in ButtonExtracts, x \in AxisExtracts :
           \/ \E b3 \in ButtonExtracts, slots \in ArrayExtracts :
                  probe' = Decoded(MixedFields, <<b1, x, b2, slots, b3, Some(0)>>)
           \/ probe' = Decoded(SameIdFields, <<b1, x, b2>>)
    /\ UNCHANGED <<env, xinput, xinput_prev_states, xinput_axis_states, hid_devices,
                   device_descriptors, device_instances, device_hid_to_axis_maps,
                   prev_hid_reports, opened_devices, hid_queue, detected_inputs,
                   polled, poll_log, hist, session>>

NextDecode == CallDecode

SpecDecode == InitPure /\ [][NextDecode]_vars

IsButtonField(field) == field.kind = "Variable" /\ field.usage_page = ButtonPage

\* the number of the button field at position i: how many button fields
\* the field list has up to and including it
ButtonNumberAt(fields, i) ==
    Cardinality({j \in 1 .. i : IsButtonField(fields[j])})

\* the buttons the Variable fields report as pressed
VariablePressed(fields, values) ==
    {ButtonNumberAt(fields, i) :
        i \in {j \in DOMAIN fields :
                  /\ IsButtonField(fields[j])
                  /\ values[j] # None
                  /\ Unwrap(values[j]) # 0}}

\* the values of the Array fields that lie in 1..255
ArrayPressed(fields, values) ==
    UNION { {Unwrap(values[i])[s] : s \in DOMAIN Unwrap(values[i])} \cap (1 .. 255) :
              i \in {j \in DOMAIN fields : fields[j].kind = "Array" /\ values[j] # None} }

\* C32: the pressed buttons of a decoded report are the numbers k whose k-th
\* button-page Variable field (counted from 1 in field order, a failed
\* extraction counted too) holds a non-zero value, together with the Array
\* values in 1..255; and the axes are the usage ids of the other Variable
\* fields that were extracted, never a button-page field.
C32_PressedButtons ==
    probe.fn = "decode" =>
        /\ probe.result # None
        /\ Pressed(Unwrap(probe.result)) =
               VariablePressed(probe.fields, probe.values)
                   \cup ArrayPressed(probe.fields, probe.values)
        /\ DOMAIN Unwrap(probe.result).axis_values =
               {probe.fields[i].usage_id :
                   i \in {j \in DOMAIN probe.fields :
                             /\ probe.fields[j].kind = "Variable"
                             /\ ~IsButtonField(probe.fields[j])
                             /\ probe.values[j] # None}}

\* the first button field failed to extract and the third is pressed and
\* reported as button 3, next to the Array value 2, with 256 ignored
C32_Witness ==
    /\ probe.fn = "decode"
    /\ Len(probe.fields) = 6
    /\ probe.values[1] = None
    /\ probe.values[4] = Some(<<256, 2>>)
    /\ probe.values[3] = Some(0)
    /\ Pressed(Unwrap(probe.result)) = {3, 2}

\* a pressed button whose usage id is 48, with the axis of usage id 48 not
\* extracted: the report has no axis
C32_ButtonIsNoAxis ==
    /\ probe.fn = "decode"
    /\ Len(probe.fields) = 3
    /\ Pressed(Unwrap(probe.result)) = {1}
    /\ DOMAIN Unwrap(probe.result).axis_values = {}

(* ------------------------------------------------------------------ *)
(* The buttons of a vendor pad                                         *)
(* ------------------------------------------------------------------ *)
\* wButtons masks: nothing, every single bit, and several bits at once
ButtonMasks ==
    {0} \cup {2^k : k \in 0 .. 15} \cup {4096 + 8192, 4096 + 1024, 1024 + 2048, 1 + 2 + 16384}

\* a pad in slot 2 whose buttons take every mask, with the left stick centred
\* or, for two of the masks, pushed right
PadButtonsEnv ==
    [hid_api |-> TRUE, xinput_loaded |-> TRUE, windows |-> TRUE,
     pads |-> [c \in Slots |->
                 IF c = 2
                 THEN {None} \cup {Some(Pad(b, 0, 0)) : b \in ButtonMasks}
                             \cup {Some(Pad(b, 32767, 0)) : b \in {0, 4096}}
                 ELSE {None}],
     hid |-> <<>>]

InitPadButtons ==
    /\ \E got0 \in PadChoices(PadButtonsEnv) : Init_new(PadButtonsEnv, got0)
    /\ session = NoSession
    /\ probe = NoProbe

\* a bare poll loop on that machine
SpecPadButtons == InitPadButtons /\ [][NextVendor]_vars

\* bit k of a mask is set
HasBit(mask, k) == (mask \div 2^k) % 2 = 1

\* the bits set in a state's mask and clear in the previous state's
NewBits(state, prev_state) ==
    {k \in 0 .. 15 : HasBit(state.wButtons, k) /\ ~HasBit(prev_state.wButtons, k)}

\* the button number of a mask bit, 0 for the two bits without one
ButtonOfBit(k) ==
    CASE k \in 12 .. 15 -> k - 11
      [] k \in 8 .. 9   -> k - 3
      [] k \in 4 .. 7   -> k + 3
      [] k \in 0 .. 3   -> k + 11
      [] OTHER -> 0

C33_Step ==
    \A c \in Slots :
        LET events == EventsOfKind(SlotEvents(detected_inputs', c), "button")
        IN  IF polled'[c] # None /\ xinput_prev_states[c] # None
            THEN LET new == NewBits(Unwrap(polled'[c]).state, Unwrap(xinput_prev_states[c]))
                     mapped == {k \in new : ButtonOfBit(k) # 0}
                 IN  /\ IF Cardinality(new) = 1 /\ mapped # {}
                        THEN /\ Len(events) = 1
                             /\ \E k \in new : events[1].input_string[4] = ButtonOfBit(k)
                        ELSE events = <<>>
                     /\ xinput_prev_states'[c] = Some(Unwrap(polled'[c]).state)
            ELSE events = <<>>

\* C33: a poll of a slot that has a previous state emits a button event iff
\* exactly one bit of wButtons is set now and was clear in the previous
\* state and that bit is one of the fourteen with a button number; the event
\* carries that number.  With two or more new bits, or bit 0x0400 or 0x0800,
\* it emits none; the polled state becomes the previous state either way, so
\* a press that went unreported is not reported by a later poll while held;
\* a release emits nothing.
C33_OneNewMappedBit == [][C33_Step]_vars

\* two buttons went down between two polls: no event, and both are now part
\* of the previous state
C33_Witness ==
    /\ polled[2] # None
    /\ ~Unwrap(polled[2]).first
    /\ Unwrap(polled[2]).state.wButtons = 4096 + 8192
    /\ xinput_prev_states[2] = Some(Unwrap(polled[2]).state)
    /\ detected_inputs = <<>>

(* ------------------------------------------------------------------ *)
(* No repeat of a direction without re-centring (checked under         *)
(* SpecVendor)                                                         *)
(* ------------------------------------------------------------------ *)
\* the events of a poll's result for axis a of slot c, of either direction
AxisEventsAt(events, c, a) ==
    {i \in DOMAIN events :
        SubSeq(events[i].input_string, 1, 4) = <<"gp", c + 1, "axis", a>>}

\* the direction an event text stands for, as last_triggered_direction holds it
DirectionFlag(d) == Some(d = "positive")

C34_AxisStep(c, a) ==
    LET fired == AxisEventsAt(detected_inputs', c, a)
        before == DirectionOf(c, a)
        after == IF xinput_axis_states'[c][a] = None THEN None
                 ELSE Unwrap(xinput_axis_states'[c][a]).last_triggered_direction
    IN  /\ Cardinality(fired) <= 1
        /\ \A i \in fired :
               LET d == DirectionFlag(detected_inputs'[i].input_string[5])
               IN  /\ before # d
                   /\ after = d
                   /\ AxesExamined(c)
                   /\ ~ObsCentered(XAxisValues(Unwrap(polled'[c]).state)[a])
        /\ (after # before /\ fired = {}) =>
               /\ AxesExamined(c)
               /\ ObsCentered(XAxisValues(Unwrap(polled'[c]).state)[a])
               /\ after = None

C34_Step ==
    /\ \A c \in Slots : \A a \in Axes : C34_AxisStep(c, a)
    /\ \A i \in 1 .. (Len(hist'.run) - 1) : hist'.run[i] # hist'.run[i + 1]

\* C34: a poll emits at most one event per slot and axis; an event of a
\* direction is emitted for an axis only when the direction recorded for the
\* axis is another one, and it records its own; the record changes otherwise
\* only when a sample of the axis lies in the dead zone, which clears it.  So
\* two events of one direction never follow each other for an axis without
\* a dead-zone sample or an event of the other direction in between, as the
\* observer of slot 0, axis 1 sees directly.
C34_NoRepeatWithoutReset == [][C34_Step]_vars

\* after a positive event the stick moved further out by more than the
\* movement threshold without a dead-zone sample: no second positive event
C34_Witness ==
    /\ hist.run = <<"positive">>
    /\ hist.fired = <<>>
    /\ hist.sample # None
    /\ ObsAbove(Unwrap(hist.sample))
    /\ xinput_axis_states[0][1] # None
    /\ ObsStrong(Unwrap(hist.sample), Unwrap(xinput_axis_states[0][1]).last_value)

(* ------------------------------------------------------------------ *)
(* The analog triggers of a vendor pad                                 *)
(* ------------------------------------------------------------------ *)
\* bLeftTrigger samples: at rest (-1), pressed a little (-0.80, -0.69, -0.60),
\* half way (0.004, in the dead zone), pressed far (0.57), fully pressed (1)
TriggerSamples == {0, 25, 39, 51, 128, 200, 255}

\* a pad in slot 0 that may be plugged in late, and one in slot 1 whose right
\* trigger is used
TriggerEnv ==
    [hid_api |-> TRUE, xinput_loaded |-> TRUE, windows |-> TRUE,
     pads |-> [c \in Slots |->
                 IF c = 0 THEN {None} \cup {Some(Pad(0, 0, lt)) : lt \in TriggerSamples}
                 ELSE IF c = 1
                 THEN {Some([Pad(0, 0, 0) EXCEPT !.bRightTrigger = rt]) : rt \in {0, 51, 255}}
                 ELSE {None}],
     hid |-> <<>>]

InitTriggers ==
    /\ \E got0 \in PadChoices(TriggerEnv) : Init_new(TriggerEnv, got0)
    /\ session = NoSession
    /\ probe = NoProbe

\* a bare poll loop on a machine with that pad
SpecTriggers == InitTriggers /\ [][NextVendor]_vars

TriggerAxes == {5, 6}

\* the trigger byte of axis 5 or 6 is 0
AtRest(state, a) ==
    IF a = 5 THEN state.bLeftTrigger = 0 ELSE state.bRightTrigger = 0

\* the AxisState the detector works from for axis a of slot c in the poll being
\* made: the stored one, or the one or_insert creates from the polled value
StoredAxis(c, a) ==
    IF xinput_axis_states[c][a] = None
    THEN AxisState(XAxisValues(Unwrap(polled'[c]).state)[a], None)
    ELSE Unwrap(xinput_axis_states[c][a])

\* a value above the rest value by more than 0.3 and still below -0.5
SmallPress(value) == 10 * (value + Unit) > 3 * Unit /\ 10 * value < -(5 * Unit)

OneNegative(c, a) ==
    /\ Cardinality(AxisEventsAt(detected_inputs', c, a)) = 1
    /\ AxisEventsOf(detected_inputs', c, a, "negative") # {}

C35_OriginalStep(c, a) ==
    LET before == Unwrap(xinput_prev_states[c])
        state == Unwrap(polled'[c]).state
        value == XAxisValues(state)[a]
    IN  /\ AtRest(before, a) =>
               /\ XAxisValues(before)[a] = -Unit
               /\ StoredAxis(c, a).last_triggered_direction = None
        /\ (AtRest(before, a) /\ AtRest(state, a)) =>
               AxisEventsAt(detected_inputs', c, a) = {}
        /\ (AtRest(before, a) /\ SmallPress(value)) => OneNegative(c, a)
        /\ (10 * XAxisValues(before)[a] > 5 * Unit /\ AtRest(state, a)) =>
               OneNegative(c, a)

C35_AxisStep(c, a) ==
    LET before == Unwrap(xinput_prev_states[c])
        state == Unwrap(polled'[c]).state
        value == XAxisValues(state)[a]
        stored == StoredAxis(c, a)
    IN  /\ AtRest(before, a) =>
               /\ XAxisValues(before)[a] = -Unit
               /\ stored.last_triggered_direction \in {None, Some(FALSE)}
        /\ (AtRest(before, a) /\ AtRest(state, a)) =>
               AxisEventsAt(detected_inputs', c, a) = {}
        /\ (AtRest(before, a) /\ SmallPress(value)) =>
               IF /\ stored.last_triggered_direction = None
                  /\ 10 * Abs(value - stored.last_value) > 3 * Unit
               THEN OneNegative(c, a)
               ELSE AxisEventsAt(detected_inputs', c, a) = {}
        /\ (AtRest(before, a) /\ SmallPress(value)
                /\ stored = AxisState(-Unit, None)) => OneNegative(c, a)
        /\ (10 * XAxisValues(before)[a] > 5 * Unit /\ AtRest(state, a)) =>
               IF xinput_axis_states[c][a] # None
               THEN OneNegative(c, a)
               ELSE AxisEventsAt(detected_inputs', c, a) = {}

C35_FreshPress ==
    /\ polled[0] # None
    /\ Unwrap(polled[0]).state.bLeftTrigger = 51
    /\ AxisEventsOf(detected_inputs, 0, 5, "negative") # {}

(* ------------------------------------------------------------------ *)
(* HID axes against the previous snapshot                              *)
(* ------------------------------------------------------------------ *)
\* a HOTAS with two input reports: stick X and a hat in the first; in the
\* second the throttle Z (0x32), Rz (0x35) declared with an empty logical
\* range and a slider (0x36) declared with a reversed one
SnapshotDescriptor ==
    [ok |-> TRUE,
     input_reports |->
         << << VarField(1, 48, 0, 1023, 16), VarField(1, HatUsage, 0, 7, 8) >>,
            << VarField(1, 50, 0, 255, 8), VarField(1, 53, 0, 0, 8),
               VarField(1, 54, 10, -10, 8) >> >>]

StickHatReport(x, h) ==
    [read_ok |-> TRUE, matches |-> 1, values |-> <<Some(x), Some(h)>>,
     hash_order |-> <<HatUsage, 48>>]

ThrottleRzReport(z, rz) ==
    [read_ok |-> TRUE, matches |-> 2, values |-> <<Some(z), Some(rz), Some(rz)>>,
     hash_order |-> <<50, 54, 53>>]

SnapshotEnv ==
    [hid_api |-> TRUE, xinput_loaded |-> FALSE, windows |-> FALSE, pads |-> NoPads,
     hid |-> << EnvDevice(
         Item("hid1", 1103, 1026, Name(<<"H","O","T","A","S">>)),
         SnapshotDescriptor,
         { StickHatReport(512, 8), StickHatReport(540, 8), StickHatReport(1023, 8),
           StickHatReport(512, 255), StickHatReport(512, 2),
           ThrottleRzReport(100, 0), ThrottleRzReport(10, 200),
           ThrottleRzReport(200, 0) }) >>]

InitSnapshots ==
    /\ \E got0 \in PadChoices(SnapshotEnv) : Init_new(SnapshotEnv, got0)
    /\ session = NoSession
    /\ probe = NoProbe

\* a bare poll loop on a machine with that device
SpecSnapshots == InitSnapshots /\ [][Next]_vars

\* the value an axis has in a snapshot, 0 when the snapshot lacks the axis
SnapshotValue(report, id) ==
    IF id \in DOMAIN report.axis_values THEN report.axis_values[id] ELSE 0

\* the axes and hats of a report that may emit: positive logical range and a
\* raw value 50 or more away from the snapshot's
Changed(before, current) ==
    {id \in DOMAIN current.axis_values :
        /\ current.axis_ranges[id][2] > current.axis_ranges[id][1]
        /\ \/ current.axis_values[id] - SnapshotValue(before, id) >= 50
           \/ SnapshotValue(before, id) - current.axis_values[id] >= 50}

C36_Step ==
    \A k \in DOMAIN poll_log' :
        LET entry == poll_log'[k]
            before == PrecedingDecoded(poll_log', k, prev_hid_reports)
        IN  (entry.current # None /\ before # None) =>
                LET current == Unwrap(entry.current)
                    changed == Changed(Unwrap(before), current)
                    axis_events == EventsOfKind(entry.events, "axis")
                    hat_events == EventsOfKind(entry.events, "hat")
                    number == device_hid_to_axis_maps[entry.path]
                IN  /\ hat_events # <<>> => HatUsage \in changed
                    /\ Len(hat_events) <= 1
                    /\ \A i \in DOMAIN axis_events :
                           \E id \in changed \ {HatUsage} :
                               axis_events[i].input_string[4] = number[id]
                    /\ \A id \in changed \ {HatUsage} :
                           LET mine == {i \in DOMAIN axis_events :
                                           axis_events[i].input_string[4] = number[id]}
                               off == current.axis_values[id] - current.axis_ranges[id][1]
                               range == current.axis_ranges[id][2] - current.axis_ranges[id][1]
                           IN  /\ Cardinality(mine) = 1
                               /\ \A i \in mine :
                                      axis_events[i].input_string[5] =
                                          (IF 2 * off > range THEN "positive"
                                           ELSE "negative")

\* C36: a report decoded after an earlier one of its device emits an axis or
\* hat event only for an axis whose logical range is positive and whose raw
\* value is at least 50 away from the value in the previous snapshot, 0
\* standing in when the snapshot lacks the axis.  Each such axis other than
\* the hat gets exactly one event, positive iff the normalized value is above
\* 0, negative otherwise, whichever way the value moved.
C36_RawChangeAgainstSnapshot == [][C36_Step]_vars

\* the throttle's first report after a stick report: the snapshot lacks Z, 100
\* counts as a rise from 0 and the event is negative; Rz and the slider moved
\* as far and emit nothing
C36_Witness ==
    \E k \in DOMAIN poll_log :
        /\ poll_log[k].prev # None
        /\ poll_log[k].current # None
        /\ 50 \notin DOMAIN Unwrap(poll_log[k].prev).axis_values
        /\ 50 \in DOMAIN Unwrap(poll_log[k].current).axis_values
        /\ Unwrap(poll_log[k].current).axis_values[50] = 100
        /\ poll_log[k].events = <<HidAxisEvent(hid_devices[1], 1, 3, "negative")>>

(* ------------------------------------------------------------------ *)
(* The numbers of a device in a session and in detect_joysticks        *)
(* ------------------------------------------------------------------ *)
\* the HID side of an Xbox pad, as Windows lists it
XboxHid(path) ==
    EnvDevice(Item(path, 1118, 654,
                   Name(<<"X","b","o","x"," ","C","o","n","t","r","o","l","l","e","r">>)),
              Descriptor(ButtonFields(1)),
              { RawReport(ButtonValues(1, b), <<>>) : b \in {{}, {1}} })

\* a Windows machine with a pad in slot 0 and the HID devices listed
IdsEnv(hid) ==
    [hid_api |-> TRUE, xinput_loaded |-> TRUE, windows |-> TRUE,
     pads |-> [c \in Slots |-> IF c = 0 THEN {Some(Pad(0, 0, 0))} ELSE {None}],
     hid |-> hid]

\* two joysticks; a joystick that does not open ahead of another; the HID
\* side of the pad ahead of a joystick
IdScenarios ==
    { IdsEnv(<< OneButton("hid1", 1), OneButton("hid2", 2) >>),
      IdsEnv(<< [OneButton("hid1", 1) EXCEPT !.open_ok = FALSE], OneButton("hid2", 2) >>),
      IdsEnv(<< XboxHid("hid1"), OneButton("hid2", 2) >>) }

InitIds ==
    /\ \E e \in IdScenarios : \E got0 \in PadChoices(e) : Init_new(e, got0)
    /\ session = NoSession
    /\ probe = NoProbe

NextIds == PollAction \/ HidReportArrives \/ CallDetectJoysticks

\* a session polling, and one call of detect_joysticks on the same machine
SpecIds == InitIds /\ [][NextIds]_vars

\* the ids detect_joysticks reported for the device of path p
ListedIds(p) ==
    {Unwrap(probe.result)[j].id :
        j \in {i \in DOMAIN Unwrap(probe.result) :
                  Unwrap(probe.result)[i].uuid = Some(HidUuid(DeviceOfPath(p)))}}

\* C37: the instance number the session puts into the identifiers of a HID
\* device is the id detect_joysticks reports for that device on the same
\* enumeration, also with vendor-covered devices or devices that do not open
\* in the enumeration.
C37_InstanceIsListedId ==
    probe.fn = "detect_joysticks" =>
        /\ \A p \in DOMAIN device_instances : ListedIds(p) \subseteq {device_instances[p]}
        /\ \A k \in DOMAIN poll_log :
               \A i \in DOMAIN poll_log[k].events :
                   ListedIds(poll_log[k].path) \subseteq {poll_log[k].events[i].input_string[2]}

\* the two numbers agree on an enumeration without a device detect_joysticks
\* skips, whether or not every device opens
IdsAgreeWithoutSkipped ==
    (/\ probe.fn = "detect_joysticks"
     /\ \A i \in DOMAIN env.hid : ~SkippedByDetectJoysticks(env.windows, env.hid[i].item)) =>
        \A p \in DOMAIN device_instances : ListedIds(p) = {device_instances[p]}

\* the joystick behind the pad's HID side sent js2_button1 and is listed as 1
SecondListedFirst ==
    /\ probe.fn = "detect_joysticks"
    /\ \E k \in DOMAIN poll_log :
           /\ poll_log[k].events = <<HidButtonEvent(DeviceOfPath(poll_log[k].path), 2, 1)>>
           /\ ListedIds(poll_log[k].path) = {1}

(* ------------------------------------------------------------------ *)
(* logical_max - logical_min in 32 bits                                *)
(* ------------------------------------------------------------------ *)
\* i32::MAX and i32::MIN
I32Max == (2^30 - 1) + 2^30
I32Min == -I32Max - 1

\* a - b on i32: whether the difference leaves the i32 range, and the value a
\* build without overflow checks computes (the difference modulo 2^32)
I32Sub(a, b) ==
    LET above == b < 0 /\ a > I32Max + b
        below == b > 0 /\ a < I32Min + b
    IN  [overflow |-> above \/ below,
         value |-> IF above THEN (a - I32Max - 1) - (b + I32Max + 1)
                   ELSE IF below THEN (a + I32Max + 1) - (b - I32Max - 1)
                   ELSE a - b]

\* logical minima and maxima a descriptor can declare
I32Samples ==
    {I32Min, I32Min + 1, -32768, -1, 0, 1, 255, 1023, 32767, 65535, I32Max - 1, I32Max}

\* let range = (logical_max - logical_min) as u32 and effective_bits, in
\* parse_hid_full_report, for a field of 16 bits; checks: the build has
\* overflow checks, so an overflowing subtraction panics
RangeInDecode(logical_min, logical_max, checks) ==
    LET d == I32Sub(logical_max, logical_min)
    IN  IF d.overflow /\ checks THEN [outcome |-> "panic"]
        ELSE [outcome |-> "decoded",
              effective_bits |-> IF d.value > 0 THEN BitLength(d.value)
                                 ELSE IF d.value < 0 THEN 32
                                 ELSE 16]

\* let range = (logical_max - logical_min) as f32; if range <= 0.0 { continue }
\* in poll
RangeInPoll(logical_min, logical_max, checks) ==
    LET d == I32Sub(logical_max, logical_min)
    IN  IF d.overflow /\ checks THEN "panic"
        ELSE IF d.value <= 0 THEN "skipped"
        ELSE "examined"

\* a report of a device with one axis field of the given logical range is
\* decoded and, if that did not panic, checked against the snapshot
CallRange ==
    /\ probe = NoProbe
    /\ \E logical_min \in I32Samples, logical_max \in I32Samples, checks \in BOOLEAN :
           LET decode == RangeInDecode(logical_min, logical_max, checks)
           IN  probe' = [fn |-> "range",
                         logical_min |-> logical_min,
                         logical_max |-> logical_max,
                         overflow_checks |-> checks,
                         decode |-> decode.outcome,
                         poll |-> IF decode.outcome = "panic" THEN "not reached"
                                  ELSE RangeInPoll(logical_min, logical_max, checks)]
    /\ UNCHANGED <<env, xinput, xinput_prev_states, xinput_axis_states, hid_devices,
                   device_descriptors, device_instances, device_hid_to_axis_maps,
                   prev_hid_reports, opened_devices, hid_queue, detected_inputs,
                   polled, poll_log, hist, session>>

NextRange == CallRange

SpecRange == InitPure /\ [][NextRange]_vars

\* C38: whatever signed 32-bit logical minimum and maximum a descriptor
\* declares, logical_max - logical_min does not overflow in the decoder or in
\* the axis check, so no report aborts the process; and an axis whose range is
\* zero or negative is decoded and never examined for an event.
C38_RangeNeverOverflows ==
    probe.fn = "range" =>
        /\ ~I32Sub(probe.logical_max, probe.logical_min).overflow
        /\ probe.decode = "decoded"
        /\ probe.poll # "panic"
        /\ probe.logical_max <= probe.logical_min => probe.poll = "skipped"

\* when the difference fits in 32 bits nothing panics, and the axis is
\* examined exactly when logical_max > logical_min
RangeSoundWithoutOverflow ==
    (probe.fn = "range" /\ ~I32Sub(probe.logical_max, probe.logical_min).overflow) =>
        /\ probe.decode = "decoded"
        /\ probe.poll = (IF probe.logical_max > probe.logical_min
                         THEN "examined" ELSE "skipped")

\* the full 32-bit range: the decoder panics in a build with overflow checks
FullRangePanics ==
    /\ probe.fn = "range"
    /\ probe.logical_min = I32Min
    /\ probe.logical_max = I32Max
    /\ probe.decode = "panic"

\* a reversed range whose difference wraps to a positive number: the axis is
\* examined for events in a build without overflow checks
ReversedRangeExamined ==
    /\ probe.fn = "range"
    /\ probe.logical_max < probe.logical_min
    /\ probe.poll = "examined"

(* ------------------------------------------------------------------ *)
(* The three device maps of the detector (checked under SpecBuild)     *)
(* ------------------------------------------------------------------ *)

\* the detector is being built or has been returned and not yet dropped
DetectorExists == session.pc # "dropped"

\* descriptor keys = instance keys, both among the opened-device keys
MapsAgree ==
    /\ DOMAIN device_descriptors = DOMAIN device_instances
    /\ DOMAIN device_descriptors \subseteq opened_devices

\* a step of the built detector that reads reports (no report arrives in it)
IsTick ==
    /\ session.pc = "built"
    /\ session'.pc = "built"
    /\ \A p \in DOMAIN hid_queue : Len(hid_queue'[p]) <= Len(hid_queue[p])

C39_Step ==
    /\ DetectorExists => MapsAgree
    /\ DetectorExists' => MapsAgree'
    /\ (session.pc = "built" /\ session'.pc = "built")
           => UNCHANGED <<opened_devices, device_descriptors, device_instances>>
    /\ IsTick =>
           \A i \in DOMAIN hid_devices :
               LET path == hid_devices[i].path
               IN  IF path \in DOMAIN device_descriptors /\ path \in opened_devices
                   THEN path \in DOMAIN device_instances
                   ELSE /\ ReadsOfPath(poll_log', path) = <<>>
                        /\ path \in DOMAIN hid_queue => hid_queue'[path] = hid_queue[path]
                        /\ path \notin DOMAIN prev_hid_reports'
                        /\ \A k \in DOMAIN detected_inputs' :
                               detected_inputs'[k].device_uuid # HidUuid(hid_devices[i])

\* C39: while the detector exists, every path with a cached descriptor has an
\* instance number and an open handle (descriptor keys = instance keys, both
\* among the opened devices); once new() has returned, the three maps never
\* change; so the instance lookup of poll finds its key for every device it
\* reads, and a device without descriptor or without handle is not read, keeps
\* its waiting reports and yields no event in any tick.
C39_DeviceMaps == [][C39_Step]_vars

\* a tick has read the third device (instance 3) while the first device was
\* never opened and the second, opened without descriptor, keeps a full queue
C39_Witness ==
    /\ session.pc = "built"
    /\ env = BuildEnvA
    /\ "hid1" \notin opened_devices
    /\ "hid2" \in opened_devices
    /\ "hid2" \notin DOMAIN device_descriptors
    /\ Len(hid_queue["hid2"]) = MaxQueue
    /\ DOMAIN device_descriptors = {"hid3"}
    /\ device_instances["hid3"] = 3
    /\ ReadsOfPath(poll_log, "hid3") # <<>>

====
